---- MODULE Spec2Model ----
(***************************************************************************)
(* Model of the hisaab-v1 backend: tax computation of invoices, double     *)
(* entry ledger posting and reversal, voucher/document numbering and       *)
(* Client-PO fulfillment tracking.                                         *)
(*                                                                         *)
(* Money.  The database columns are Numeric(15,2); a stored amount is an   *)
(* integer number of paise.  The handlers compute with Python Decimal      *)
(* before the row is written; an unstored Decimal is an integer number of  *)
(* "units" of 0.000005 rupee (2000 units = 1 paisa, 200000 units = 1       *)
(* rupee).  Every division the handlers perform on the inputs enumerated   *)
(* below (by 100 and by 2) is exact at that scale, as it is in Decimal.    *)
(*                                                                         *)
(* Schema.  The rows carry the columns of the migrated database:           *)
(* payments.is_posted, company_settings.ledger_posting_on and the          *)
(* company_settings.default_*_account_id columns are added by migration    *)
(* f1a2b3c4d5e6 and read by ledger_posting.py, although models/payment.py  *)
(* and models/settings.py do not declare them.                             *)
(***************************************************************************)
EXTENDS Integers, Sequences, FiniteSets, TLC

VARIABLES
    today,          \* date.today() / datetime.now(), as <<year, month>>
    settings,       \* the active CompanySettings row
    invoices,       \* invoices table: id -> row
    invoiceSeq,     \* last id handed out by the invoices autoincrement
    payments,       \* payments table: id -> row
    paymentSeq,     \* last id handed out by the payments autoincrement
    ledger,         \* ledger_entries table, in insertion order
    clientPos,      \* client_pos table: id -> row
    schedules,      \* billing_schedules table: id -> row
    proformas,      \* proforma_invoices table: id -> row
    idSeq,          \* last ids handed out for client_pos, billing_schedules
                    \* and proforma_invoices
    issued,         \* history: every document number handed to a caller
    lastCall,       \* history: the last service call and its outcome
    reqs            \* in-flight concurrent requests (SpecConcurrent)

vars == <<today, settings, invoices, invoiceSeq, payments, paymentSeq,
          ledger, clientPos, schedules, proformas, idSeq, issued, lastCall, reqs>>

\* ------------------------------------------------------------------ bounds

\* most rows the invoices table receives in one behaviour
MaxInvoices == 1
\* most rows the payments table receives in one behaviour
MaxPayments == 1
\* most posting / reversal calls that write to the ledger in one behaviour
MaxVouchers == 4

\* ------------------------------------------------------------- arithmetic

Abs(x) == IF x < 0 THEN -x ELSE x

Max(a, b) == IF a >= b THEN a ELSE b

\* paise -> units
ToUnits(p) == p * 2000

\* a whole number of rupees -> units
RupeesToUnits(r) == r * 200000

\* x * pct / 100 on Decimals
Percent(x, pct) == (x * pct) \div 100

\* a Decimal left undivided
Whole(x) == x

\* Decimal / 2
Half(x) == x \div 2

\* PostgreSQL numeric(15,2) on write: round to 2 places, ties away from zero
QuantizeNumeric(u) ==
    LET q == (Abs(u) + 1000) \div 2000
    IN  IF u < 0 THEN -q ELSE q

\* Python round(Decimal) with no ndigits: nearest integer, ties to even
PyRound(u) ==
    LET a == Abs(u)
        f == a \div 200000
        r == a % 200000
        n == IF r > 100000 THEN f + 1
             ELSE IF r < 100000 THEN f
             ELSE IF f % 2 = 0 THEN f ELSE f + 1
    IN  IF u < 0 THEN -n ELSE n

RECURSIVE SumSeq(_)
\* sum of a sequence of Decimals, as the += loops of the handlers
SumSeq(s) ==
    IF s = <<>> THEN 0 ELSE Head(s) + SumSeq(Tail(s))

\* ------------------------------------------------------- financial years

\* ledger_posting.get_financial_year: f"{start_year}-{str(end_year)[-2:]}",
\* as the pair <<start_year, last two digits of end_year>>
LedgerFinancialYear(dt, fy_start_month) ==
    LET start_year == IF dt[2] >= fy_start_month THEN dt[1] ELSE dt[1] - 1
    IN  <<start_year, (start_year + 1) % 100>>

\* number_generator.get_financial_year: today's date, year starting in April
CurrentFinancialYear(now) ==
    IF now[2] < 4 THEN <<now[1] - 1, now[1] % 100>>
    ELSE <<now[1], (now[1] + 1) % 100>>

\* ------------------------------------------------------ number formatting

\* str(n).zfill(4) and f"{n:04d}": the decimal digits of n, left-padded with
\* zeros to at least four characters
RECURSIVE Digits(_)
Digits(n) == IF n < 10 THEN <<n>> ELSE Append(Digits(n \div 10), n % 10)

ZFill4(n) ==
    LET d == Digits(n)
    IN  IF Len(d) >= 4 THEN d ELSE [i \in 1..(4 - Len(d)) |-> 0] \o d

\* cast(substr(number, prefix_len + 1) as Integer): the digits read back
RECURSIVE CastInteger(_)
CastInteger(d) ==
    IF d = <<>> THEN 0 ELSE 10 * CastInteger(SubSeq(d, 1, Len(d) - 1)) + d[Len(d)]

\* a formatted number "PREFIX/FY/NNNN" as its three parts
FormatNumber(prefix, fy, n) == [prefix |-> prefix, fy |-> fy, digits |-> ZFill4(n)]

\* number LIKE "PREFIX/FY/%"
HasPrefix(number, prefix, fy) == number.prefix = prefix /\ number.fy = fy

\* func.max over a set of integers, NULL (None) read as 0 by "or 0"
MaxOrZero(S) == IF S = {} THEN 0 ELSE CHOOSE m \in S : \A x \in S : x <= m

\* ------------------------------------------------------- tax computation

\* invoices.calculate_invoice_item_amounts; item_data holds quantity, rate (in
\* paise), discount_percent, gst_rate and cess_rate; the result is in units
calculate_invoice_item_amounts(item_data, is_igst) ==
    LET amount          == item_data.quantity * ToUnits(item_data.rate)
        discount_amount == Percent(amount, item_data.discount_percent)
        taxable_amount  == amount - discount_amount
        gst_amount      == Percent(taxable_amount, item_data.gst_rate)
        cess_amount     == Percent(taxable_amount, item_data.cess_rate)
    IN  [ amount          |-> amount,
          discount_amount |-> discount_amount,
          taxable_amount  |-> taxable_amount,
          cgst_amount     |-> IF is_igst THEN 0 ELSE Half(gst_amount),
          sgst_amount     |-> IF is_igst THEN 0 ELSE Half(gst_amount),
          igst_amount     |-> IF is_igst THEN gst_amount ELSE 0,
          cess_amount     |-> cess_amount,
          total_amount    |-> taxable_amount + gst_amount + cess_amount ]

\* the totals block of invoices.create_invoice (and update_invoice), in units
InvoiceTotals(item_amounts, discount_percent, tds_applicable, tds_rate, tcs_applicable, tcs_rate) ==
    LET n  == Len(item_amounts)
        subtotal   == SumSeq([i \in 1..n |-> item_amounts[i].taxable_amount])
        total_cgst == SumSeq([i \in 1..n |-> item_amounts[i].cgst_amount])
        total_sgst == SumSeq([i \in 1..n |-> item_amounts[i].sgst_amount])
        total_igst == SumSeq([i \in 1..n |-> item_amounts[i].igst_amount])
        total_cess == SumSeq([i \in 1..n |-> item_amounts[i].cess_amount])
        discount_amount    == Percent(subtotal, discount_percent)
        taxable_amount     == subtotal - discount_amount
        total_tax          == total_cgst + total_sgst + total_igst + total_cess
        total_before_round == taxable_amount + total_tax
        round_off          == RupeesToUnits(PyRound(total_before_round)) - total_before_round
        total_amount       == RupeesToUnits(PyRound(total_before_round))
        tds_amount == IF tds_applicable THEN Percent(taxable_amount, tds_rate) ELSE 0
        tcs_amount == IF tcs_applicable THEN Percent(total_amount, tcs_rate) ELSE 0
    IN  [ subtotal         |-> subtotal,
          discount_amount  |-> discount_amount,
          taxable_amount   |-> taxable_amount,
          cgst_amount      |-> total_cgst,
          sgst_amount      |-> total_sgst,
          igst_amount      |-> total_igst,
          cess_amount      |-> total_cess,
          round_off        |-> round_off,
          total_amount     |-> total_amount,
          tds_amount       |-> tds_amount,
          tcs_amount       |-> tcs_amount,
          amount_after_tds |-> total_amount - tds_amount + tcs_amount ]

\* an invoice_items row as the database keeps it (paise)
StoredItem(a) ==
    [ amount          |-> QuantizeNumeric(a.amount),
      discount_amount |-> QuantizeNumeric(a.discount_amount),
      taxable_amount  |-> QuantizeNumeric(a.taxable_amount),
      cgst_amount     |-> QuantizeNumeric(a.cgst_amount),
      sgst_amount     |-> QuantizeNumeric(a.sgst_amount),
      igst_amount     |-> QuantizeNumeric(a.igst_amount),
      cess_amount     |-> QuantizeNumeric(a.cess_amount),
      total_amount    |-> QuantizeNumeric(a.total_amount) ]

\* ---------------------------------------------------------------- domains

InvoiceTypes == {"SALES", "PURCHASE", "CREDIT_NOTE", "DEBIT_NOTE"}

InvoiceStatuses == {"DRAFT", "SENT", "PARTIAL", "PAID", "OVERDUE", "CANCELLED"}

\* line items a request may carry: quantity, rate in paise, percentages
PlainItem    == [quantity |-> 1, rate |-> 10000, discount_percent |-> 0,
                 gst_rate |-> 18, cess_rate |-> 0]

RoundDownItem == [quantity |-> 1, rate |-> 10040, discount_percent |-> 0,
                  gst_rate |-> 0, cess_rate |-> 0]

CessItem     == [quantity |-> 1, rate |-> 10050, discount_percent |-> 10,
                 gst_rate |-> 5, cess_rate |-> 1]

\* a NULL date column / an absent date of a request
NoDate == <<0, 0, 0>>

\* dates a document may carry, <<year, month>>: either side of 1 April 2025
DocDates == {<<2025, 3>>, <<2025, 4>>}

\* the request bodies create_invoice is called with
PlainInvoiceData ==
    [ invoice_type |-> "SALES", invoice_date |-> <<2025, 4>>, is_igst |-> FALSE,
      items |-> <<PlainItem>>, discount_percent |-> 0,
      tds_applicable |-> FALSE, tds_rate |-> 0,
      tcs_applicable |-> FALSE, tcs_rate |-> 0 ]

InvoiceCreateInputs ==
    { [PlainInvoiceData EXCEPT !.invoice_type = t] : t \in InvoiceTypes }
    \cup { [PlainInvoiceData EXCEPT !.is_igst = TRUE],
           [PlainInvoiceData EXCEPT !.invoice_date = <<2025, 3>>],
           [PlainInvoiceData EXCEPT !.items = <<RoundDownItem>>],
           [PlainInvoiceData EXCEPT !.items = <<PlainItem, CessItem>>],
           [PlainInvoiceData EXCEPT !.tds_applicable = TRUE, !.tds_rate = 10],
           [PlainInvoiceData EXCEPT !.tcs_applicable = TRUE, !.tcs_rate = 10],
           [PlainInvoiceData EXCEPT !.invoice_type = "PURCHASE",
                                    !.tds_applicable = TRUE, !.tds_rate = 10,
                                    !.discount_percent = 10] }

\* CompanySettings with every default account configured (chart ids 1..15);
\* an unset default account is 0 (NULL)
AllAccountsSettings ==
    [ financial_year_start_month        |-> 4,
      ledger_posting_on                 |-> "ON_SENT",
      default_sales_account_id          |-> 1,
      default_purchase_account_id       |-> 2,
      default_ar_account_id             |-> 3,
      default_ap_account_id             |-> 4,
      default_cash_account_id           |-> 5,
      default_bank_account_id           |-> 6,
      default_cgst_output_account_id    |-> 7,
      default_sgst_output_account_id    |-> 8,
      default_igst_output_account_id    |-> 9,
      default_cgst_input_account_id     |-> 10,
      default_sgst_input_account_id     |-> 11,
      default_igst_input_account_id     |-> 12,
      default_tds_receivable_account_id |-> 13,
      default_tds_payable_account_id    |-> 14,
      default_round_off_account_id      |-> 15 ]

\* ---------------------------------------------------------- ledger posting

ReferencePrefix(reference_type) ==
    CASE reference_type = "INVOICE" -> "INV"
      [] reference_type = "PAYMENT" -> "PAY"
      [] reference_type = "JOURNAL" -> "JRN"
      [] reference_type = "OPENING" -> "OPN"
      [] OTHER -> "VCH"

\* ledger_posting.generate_voucher_number: count of the ledger rows of this
\* reference type and financial year, plus one
generate_voucher_number(rows, reference_type, financial_year) ==
    LET count == Cardinality({ k \in 1..Len(rows) :
                     /\ rows[k].reference_type = reference_type
                     /\ rows[k].financial_year = financial_year })
    IN  FormatNumber(ReferencePrefix(reference_type), financial_year, count + 1)

\* one LedgerEntry(**common_fields, account_id, debit, credit, narration)
Leg(common, account_id, debit, credit, label, text) ==
    [ entry_date     |-> common.entry_date,
      voucher_number |-> common.voucher_number,
      reference_type |-> common.reference_type,
      reference_id   |-> common.reference_id,
      financial_year |-> common.financial_year,
      account_id     |-> account_id,
      debit          |-> debit,
      credit         |-> credit,
      narration      |-> [reversals |-> 0, label |-> label, text |-> text] ]

\* a leg emitted whatever its condition
LegAlways(cond, e) == <<e>>

\* <<e>> when the leg's condition holds, else no leg
LegIf(cond, e) == IF cond THEN <<e>> ELSE <<>>

\* a round-off leg that is a debit whatever the sign of round_off
RoundOffAsDebit(common, invoice, st, label) ==
    IF st.default_round_off_account_id # 0 /\ invoice.round_off # 0
    THEN <<Leg(common, st.default_round_off_account_id,
               Abs(invoice.round_off), 0, label, "Round off")>>
    ELSE <<>>

\* step 5 of post_sales_invoice / post_purchase_invoice
RoundOffLegs(common, invoice, st, label) ==
    IF st.default_round_off_account_id # 0 /\ invoice.round_off # 0
    THEN IF invoice.round_off > 0
         THEN <<Leg(common, st.default_round_off_account_id,
                    Abs(invoice.round_off), 0, label, "Round off")>>
         ELSE <<Leg(common, st.default_round_off_account_id,
                    0, Abs(invoice.round_off), label, "Round off")>>
    ELSE <<>>

InvoiceCommonFields(rows, invoice_id, invoice, st) ==
    LET financial_year == LedgerFinancialYear(invoice.invoice_date,
                                              st.financial_year_start_month)
    IN  [ entry_date     |-> invoice.invoice_date,
          voucher_number |-> generate_voucher_number(rows, "INVOICE", financial_year),
          reference_type |-> "INVOICE",
          reference_id   |-> invoice_id,
          financial_year |-> financial_year ]

\* the entries list post_sales_invoice builds
post_sales_invoice(rows, invoice_id, invoice, st) ==
    LET c == InvoiceCommonFields(rows, invoice_id, invoice, st)
        l == "Sales Invoice"
    IN  LegIf(st.default_ar_account_id # 0 /\ invoice.amount_after_tds > 0,
              Leg(c, st.default_ar_account_id, invoice.amount_after_tds, 0,
                  l, "Receivable from customer"))
        \o LegIf(st.default_tds_receivable_account_id # 0 /\ invoice.tds_amount > 0,
              Leg(c, st.default_tds_receivable_account_id, invoice.tds_amount, 0,
                  l, "TDS deducted by customer"))
        \o LegIf(st.default_sales_account_id # 0 /\ invoice.taxable_amount > 0,
              Leg(c, st.default_sales_account_id, 0, invoice.taxable_amount,
                  l, "Sales revenue"))
        \o (IF invoice.is_igst
            THEN LegIf(st.default_igst_output_account_id # 0 /\ invoice.igst_amount > 0,
                    Leg(c, st.default_igst_output_account_id, 0, invoice.igst_amount,
                        l, "IGST output"))
            ELSE LegIf(st.default_cgst_output_account_id # 0 /\ invoice.cgst_amount > 0,
                    Leg(c, st.default_cgst_output_account_id, 0, invoice.cgst_amount,
                        l, "CGST output"))
                 \o LegIf(st.default_sgst_output_account_id # 0 /\ invoice.sgst_amount > 0,
                    Leg(c, st.default_sgst_output_account_id, 0, invoice.sgst_amount,
                        l, "SGST output")))
        \o RoundOffLegs(c, invoice, st, l)

\* the entries list post_purchase_invoice builds
post_purchase_invoice(rows, invoice_id, invoice, st) ==
    LET c == InvoiceCommonFields(rows, invoice_id, invoice, st)
        l == "Purchase Invoice"
    IN  LegIf(st.default_purchase_account_id # 0 /\ invoice.taxable_amount > 0,
              Leg(c, st.default_purchase_account_id, invoice.taxable_amount, 0,
                  l, "Purchase expense"))
        \o (IF invoice.is_igst
            THEN LegIf(st.default_igst_input_account_id # 0 /\ invoice.igst_amount > 0,
                    Leg(c, st.default_igst_input_account_id, invoice.igst_amount, 0,
                        l, "IGST input credit"))
            ELSE LegIf(st.default_cgst_input_account_id # 0 /\ invoice.cgst_amount > 0,
                    Leg(c, st.default_cgst_input_account_id, invoice.cgst_amount, 0,
                        l, "CGST input credit"))
                 \o LegIf(st.default_sgst_input_account_id # 0 /\ invoice.sgst_amount > 0,
                    Leg(c, st.default_sgst_input_account_id, invoice.sgst_amount, 0,
                        l, "SGST input credit")))
        \o LegIf(st.default_ap_account_id # 0 /\ invoice.amount_after_tds > 0,
              Leg(c, st.default_ap_account_id, 0, invoice.amount_after_tds,
                  l, "Payable to vendor"))
        \o LegIf(st.default_tds_payable_account_id # 0 /\ invoice.tds_amount > 0,
              Leg(c, st.default_tds_payable_account_id, 0, invoice.tds_amount,
                  l, "TDS payable"))
        \o RoundOffLegs(c, invoice, st, l)

\* legs kept as they are
NoSwap(entries, label) == entries

\* entry.debit, entry.credit = entry.credit, entry.debit and the narration
\* replace of post_invoice's CREDIT_NOTE / DEBIT_NOTE branches
SwapLegs(entries, label) ==
    [ k \in 1..Len(entries) |->
        [entries[k] EXCEPT !.debit = entries[k].credit,
                           !.credit = entries[k].debit,
                           !.narration.label = label] ]

\* the entries post_invoice adds to the session for an unposted invoice
PostInvoiceEntries(rows, invoice_id, invoice, st) ==
    CASE invoice.invoice_type = "SALES" ->
            post_sales_invoice(rows, invoice_id, invoice, st)
      [] invoice.invoice_type = "PURCHASE" ->
            post_purchase_invoice(rows, invoice_id, invoice, st)
      [] invoice.invoice_type = "CREDIT_NOTE" ->
            SwapLegs(post_sales_invoice(rows, invoice_id, invoice, st), "Credit Note")
      [] invoice.invoice_type = "DEBIT_NOTE" ->
            SwapLegs(post_purchase_invoice(rows, invoice_id, invoice, st), "Debit Note")

PaymentCommonFields(rows, payment_id, payment, st) ==
    LET financial_year == LedgerFinancialYear(payment.payment_date,
                                              st.financial_year_start_month)
    IN  [ entry_date     |-> payment.payment_date,
          voucher_number |-> generate_voucher_number(rows, "PAYMENT", financial_year),
          reference_type |-> "PAYMENT",
          reference_id   |-> payment_id,
          financial_year |-> financial_year ]

\* "Determine cash or bank account" of post_receipt / post_payment_to_vendor
CashBankAccount(payment, st) ==
    IF payment.payment_mode = "CASH" THEN st.default_cash_account_id
    ELSE st.default_bank_account_id

\* the entries list post_receipt builds
post_receipt(rows, payment_id, payment, st) ==
    LET c == PaymentCommonFields(rows, payment_id, payment, st)
        cash_bank_account_id == CashBankAccount(payment, st)
    IN  LegIf(cash_bank_account_id # 0 /\ payment.net_amount > 0,
              Leg(c, cash_bank_account_id, payment.net_amount, 0,
                  "Receipt", "Money received from customer"))
        \o LegIf(st.default_tds_receivable_account_id # 0 /\ payment.tds_amount > 0,
              Leg(c, st.default_tds_receivable_account_id, payment.tds_amount, 0,
                  "Receipt", "TDS deducted by customer"))
        \o LegIf(st.default_ar_account_id # 0 /\ payment.gross_amount > 0,
              Leg(c, st.default_ar_account_id, 0, payment.gross_amount,
                  "Receipt", "Receivable cleared"))

\* the entries list post_payment_to_vendor builds
post_payment_to_vendor(rows, payment_id, payment, st) ==
    LET c == PaymentCommonFields(rows, payment_id, payment, st)
        cash_bank_account_id == CashBankAccount(payment, st)
    IN  LegIf(st.default_ap_account_id # 0 /\ payment.gross_amount > 0,
              Leg(c, st.default_ap_account_id, payment.gross_amount, 0,
                  "Payment", "Payable cleared"))
        \o LegIf(cash_bank_account_id # 0 /\ payment.net_amount > 0,
              Leg(c, cash_bank_account_id, 0, payment.net_amount,
                  "Payment", "Money paid to vendor"))
        \o LegIf(st.default_tds_payable_account_id # 0 /\ payment.tds_amount > 0,
              Leg(c, st.default_tds_payable_account_id, 0, payment.tds_amount,
                  "Payment", "TDS withheld"))

\* the entries post_payment adds to the session for an unposted payment
PostPaymentEntries(rows, payment_id, payment, st) ==
    IF payment.payment_type = "RECEIPT"
    THEN post_receipt(rows, payment_id, payment, st)
    ELSE post_payment_to_vendor(rows, payment_id, payment, st)

\* reversal that mirrors only the rows written by post_* calls
OriginalEntriesPostedOnly(rows, reference_type, reference_id) ==
    SelectSeq(rows, LAMBDA e : /\ e.reference_type = reference_type
                               /\ e.reference_id = reference_id
                               /\ e.narration.reversals = 0)

\* "Get original entries": the rows select(LedgerEntry).where(reference_type ==
\* ..., reference_id == ...) returns, in insertion order
OriginalEntries(rows, reference_type, reference_id) ==
    SelectSeq(rows, LAMBDA e : /\ e.reference_type = reference_type
                               /\ e.reference_id = reference_id)

\* the reversal rows reverse_invoice_posting / reverse_payment_posting add
ReversalEntries(rows, reference_type, reference_id, doc_date, st, now) ==
    LET original_entries == OriginalEntries(rows, reference_type, reference_id)
        financial_year   == LedgerFinancialYear(doc_date, st.financial_year_start_month)
        voucher_number   == generate_voucher_number(rows, reference_type, financial_year)
    IN  [ k \in 1..Len(original_entries) |->
            [ entry_date     |-> now,
              voucher_number |-> voucher_number,
              account_id     |-> original_entries[k].account_id,
              debit          |-> original_entries[k].credit,
              credit         |-> original_entries[k].debit,
              reference_type |-> reference_type,
              reference_id   |-> reference_id,
              narration      |-> [original_entries[k].narration EXCEPT
                                    !.reversals = @ + 1],
              financial_year |-> financial_year ] ]

\* a posting guard that lets every document through
GuardDisabled(doc) == FALSE

\* "if invoice.is_posted: raise ValueError" / "if payment.is_posted: raise ..."
AlreadyPosted(doc) == doc.is_posted

\* "if not invoice.is_posted: raise ValueError" / "if not payment.is_posted: ..."
NotPosted(doc) == ~doc.is_posted

\* ------------------------------------------------------ document numbers

InvoicePrefix(invoice_type) ==
    CASE invoice_type = "SALES"       -> "INV"
      [] invoice_type = "PURCHASE"    -> "BILL"
      [] invoice_type = "CREDIT_NOTE" -> "CN"
      [] OTHER                        -> "DN"

\* number_generator.generate_invoice_number: max numeric suffix among the
\* invoice numbers LIKE "PREFIX/FY/%", plus one
generate_invoice_number(rows, invoice_type, now) ==
    LET fy      == CurrentFinancialYear(now)
        prefix  == InvoicePrefix(invoice_type)
        max_num == MaxOrZero({ CastInteger(rows[i].invoice_number.digits) :
                       i \in { j \in DOMAIN rows :
                                 HasPrefix(rows[j].invoice_number, prefix, fy) } })
    IN  FormatNumber(prefix, fy, max_num + 1)

\* number_generator.generate_payment_number
generate_payment_number(rows, payment_type, now) ==
    LET fy      == CurrentFinancialYear(now)
        prefix  == IF payment_type = "RECEIPT" THEN "REC" ELSE "PAY"
        max_num == MaxOrZero({ CastInteger(rows[i].payment_number.digits) :
                       i \in { j \in DOMAIN rows :
                                 HasPrefix(rows[j].payment_number, prefix, fy) } })
    IN  FormatNumber(prefix, fy, max_num + 1)

\* ------------------------------------------------------------------- rows

\* the Invoice row create_invoice commits for a request body
NewInvoiceRow(invoice_number, data) ==
    LET amounts == [ k \in 1..Len(data.items) |->
                       calculate_invoice_item_amounts(data.items[k], data.is_igst) ]
        t == InvoiceTotals(amounts, data.discount_percent, data.tds_applicable,
                           data.tds_rate, data.tcs_applicable, data.tcs_rate)
    IN  [ invoice_number      |-> invoice_number,
          invoice_date        |-> data.invoice_date,
          invoice_type        |-> data.invoice_type,
          client_po_id        |-> 0,
          billing_schedule_id |-> 0,
          is_igst             |-> data.is_igst,
          discount_percent    |-> data.discount_percent,
          tds_applicable      |-> data.tds_applicable,
          tds_rate            |-> data.tds_rate,
          tcs_applicable      |-> data.tcs_applicable,
          tcs_rate            |-> data.tcs_rate,
          items               |-> [ k \in 1..Len(amounts) |-> StoredItem(amounts[k]) ],
          subtotal            |-> QuantizeNumeric(t.subtotal),
          discount_amount     |-> QuantizeNumeric(t.discount_amount),
          taxable_amount      |-> QuantizeNumeric(t.taxable_amount),
          cgst_amount         |-> QuantizeNumeric(t.cgst_amount),
          sgst_amount         |-> QuantizeNumeric(t.sgst_amount),
          igst_amount         |-> QuantizeNumeric(t.igst_amount),
          cess_amount         |-> QuantizeNumeric(t.cess_amount),
          round_off           |-> QuantizeNumeric(t.round_off),
          total_amount        |-> QuantizeNumeric(t.total_amount),
          tds_amount          |-> QuantizeNumeric(t.tds_amount),
          tcs_amount          |-> QuantizeNumeric(t.tcs_amount),
          amount_after_tds    |-> QuantizeNumeric(t.amount_after_tds),
          amount_due          |-> QuantizeNumeric(t.amount_after_tds),
          amount_paid         |-> 0,
          status              |-> "DRAFT",
          is_posted           |-> FALSE ]

\* "Update invoice if linked" of create_payment: the invoice row after a
\* payment of net_amount (a Decimal of the request, in units) is applied to it.
\* amount_paid and amount_due are assigned from the unrounded Decimals, the
\* status is chosen on them, and the flush rounds each column on its own
ApplyPaymentToInvoice(invoice, net_amount) ==
    LET paid == ToUnits(invoice.amount_paid) + net_amount
        due  == ToUnits(invoice.amount_after_tds) - paid
    IN  [invoice EXCEPT !.amount_paid = QuantizeNumeric(paid),
                        !.amount_due  = QuantizeNumeric(due),
                        !.status = IF due <= 0 THEN "PAID"
                                   ELSE IF paid > 0 THEN "PARTIAL" ELSE @]

\* net_amount = gross_amount - tds_amount + tcs_amount on the request's Decimals
NetAmount(data) == data.gross_amount - data.tds_amount + data.tcs_amount

\* the Payment row create_payment commits for a request body (request amounts
\* in units, stored amounts in paise)
NewPaymentRow(payment_number, data) ==
    [ payment_number |-> payment_number,
      payment_date   |-> data.payment_date,
      payment_type   |-> data.payment_type,
      invoice_id     |-> data.invoice_id,
      gross_amount   |-> QuantizeNumeric(data.gross_amount),
      tds_amount     |-> QuantizeNumeric(data.tds_amount),
      tcs_amount     |-> QuantizeNumeric(data.tcs_amount),
      net_amount     |-> QuantizeNumeric(NetAmount(data)),
      payment_mode   |-> data.payment_mode,
      status         |-> "COMPLETED",
      is_posted      |-> FALSE ]

\* the request bodies create_payment is called with
PlainPaymentData ==
    [ payment_type |-> "RECEIPT", payment_date |-> <<2025, 4>>, invoice_id |-> 0,
      gross_amount |-> ToUnits(10000), tds_amount |-> 0, tcs_amount |-> 0,
      payment_mode |-> "BANK_TRANSFER" ]

PaymentCreateInputs ==
    { PlainPaymentData,
      [PlainPaymentData EXCEPT !.tds_amount = ToUnits(1000), !.payment_mode = "CASH"],
      [PlainPaymentData EXCEPT !.tcs_amount = ToUnits(100)],
      [PlainPaymentData EXCEPT !.payment_type = "PAYMENT", !.tds_amount = ToUnits(1000)],
      [PlainPaymentData EXCEPT !.payment_type = "PAYMENT", !.payment_mode = "CASH",
                               !.payment_date = <<2025, 3>>] }

\* ----------------------------------------------------------------- state

\* a freshly migrated database with one active CompanySettings row
Init ==
    /\ today = <<2025, 4>>
    /\ settings = AllAccountsSettings
    /\ invoices = <<>>
    /\ invoiceSeq = 0
    /\ payments = <<>>
    /\ paymentSeq = 0
    /\ ledger = <<>>
    /\ clientPos = <<>>
    /\ schedules = <<>>
    /\ proformas = <<>>
    /\ idSeq = [client_pos |-> 0, billing_schedules |-> 0, proforma_invoices |-> 0]
    /\ issued = <<>>
    /\ lastCall = [op |-> "none", id |-> 0, result |-> "ok"]
    /\ reqs = <<>>

configVars  == <<today, settings>>
invoiceVars == <<invoices, invoiceSeq>>
paymentVars == <<payments, paymentSeq>>
poVars      == <<clientPos, schedules, proformas, idSeq>>

\* distinct voucher numbers the ledger holds
VoucherNumbers == { ledger[k].voucher_number : k \in 1..Len(ledger) }

Called(op, id, result) == lastCall' = [op |-> op, id |-> id, result |-> result]

\* ------------------------------------------------- invoice create / posting

\* POST /invoices (invoices.create_invoice), one committed transaction
\* (create_invoice does not post to the ledger)
InsertInvoice(data) ==
    /\ LET id     == invoiceSeq + 1
           number == generate_invoice_number(invoices, data.invoice_type, today)
       IN  /\ invoices' = invoices @@ (id :> NewInvoiceRow(number, data))
           /\ invoiceSeq' = id
           /\ issued' = Append(issued, number)
           /\ Called("create_invoice", id, "ok")
    /\ UNCHANGED <<configVars, paymentVars, ledger, poVars, reqs>>

CreateInvoice(data) ==
    /\ invoiceSeq < MaxInvoices
    /\ InsertInvoice(data)

\* ledger_posting.post_invoice followed by the caller's commit
PostInvoice(i) ==
    /\ i \in DOMAIN invoices
    /\ IF AlreadyPosted(invoices[i])
       THEN /\ Called("post_invoice", i, "ValueError")
            /\ UNCHANGED <<invoices, ledger>>
       ELSE /\ Cardinality(VoucherNumbers) < MaxVouchers
            /\ ledger' = ledger \o PostInvoiceEntries(ledger, i, invoices[i], settings)
            /\ invoices' = [invoices EXCEPT ![i].is_posted = TRUE]
            /\ Called("post_invoice", i, "ok")
    /\ UNCHANGED <<configVars, invoiceSeq, paymentVars, poVars, issued, reqs>>

\* ledger_posting.reverse_invoice_posting followed by the caller's commit
ReverseInvoicePosting(i) ==
    /\ i \in DOMAIN invoices
    /\ IF NotPosted(invoices[i])
       THEN /\ Called("reverse_invoice_posting", i, "ValueError")
            /\ UNCHANGED <<invoices, ledger>>
       ELSE /\ Cardinality(VoucherNumbers) < MaxVouchers
            /\ ledger' = ledger \o ReversalEntries(ledger, "INVOICE", i,
                                      invoices[i].invoice_date, settings, today)
            /\ invoices' = [invoices EXCEPT ![i].is_posted = FALSE]
            /\ Called("reverse_invoice_posting", i, "ok")
    /\ UNCHANGED <<configVars, invoiceSeq, paymentVars, poVars, issued, reqs>>

\* ------------------------------------------------ payment create / posting

\* the part of a session's pending rows that reaches the database when the
\* handler issues no further commit: the request ends and the session is closed
CommittedAnyway(pending) == pending

Uncommitted(pending) == <<>>

\* POST /payments (payments.create_payment): the payment and the linked
\* invoice are committed, then the payment is posted inside try/except and
\* committed again. fault = 0 lets post_payment finish; fault = k > 0 makes it
\* raise while db.add-ing its k-th leg, before payment.is_posted is set: the
\* exception is logged and the handler commits nothing more.
CreatePaymentWithFault(data, fault) ==
    /\ paymentSeq < MaxPayments
    /\ Cardinality(VoucherNumbers) < MaxVouchers
    /\ data.invoice_id = 0 \/ data.invoice_id \in DOMAIN invoices
    /\ LET id      == paymentSeq + 1
           number  == generate_payment_number(payments, data.payment_type, today)
           row     == NewPaymentRow(number, data)
           entries == PostPaymentEntries(ledger, id, row, settings)
       IN  /\ fault <= Len(entries)
           /\ payments' = payments @@ (id :> [row EXCEPT !.is_posted = (fault = 0)])
           /\ paymentSeq' = id
           /\ invoices' = IF data.invoice_id # 0
                          THEN [invoices EXCEPT ![data.invoice_id] =
                                   ApplyPaymentToInvoice(@, NetAmount(data))]
                          ELSE invoices
           /\ ledger' = IF fault = 0 THEN ledger \o entries
                        ELSE ledger \o Uncommitted(SubSeq(entries, 1, fault - 1))
           /\ issued' = Append(issued, number)
           /\ IF fault = 0 THEN Called("create_payment", id, "ok")
              ELSE lastCall' = [op |-> "create_payment", id |-> id,
                                result |-> "posting_failed", fault |-> fault]
    /\ UNCHANGED <<configVars, invoiceSeq, poVars, reqs>>

\* create_payment when post_payment raises nothing
CreatePayment(data) == CreatePaymentWithFault(data, 0)

\* ledger_posting.post_payment followed by the caller's commit
PostPayment(p) ==
    /\ p \in DOMAIN payments
    /\ IF AlreadyPosted(payments[p])
       THEN /\ Called("post_payment", p, "ValueError")
            /\ UNCHANGED <<payments, ledger>>
       ELSE /\ Cardinality(VoucherNumbers) < MaxVouchers
            /\ ledger' = ledger \o PostPaymentEntries(ledger, p, payments[p], settings)
            /\ payments' = [payments EXCEPT ![p].is_posted = TRUE]
            /\ Called("post_payment", p, "ok")
    /\ UNCHANGED <<configVars, invoiceVars, paymentSeq, poVars, issued, reqs>>

\* ledger_posting.reverse_payment_posting followed by the caller's commit
ReversePaymentPosting(p) ==
    /\ p \in DOMAIN payments
    /\ IF NotPosted(payments[p])
       THEN /\ Called("reverse_payment_posting", p, "ValueError")
            /\ UNCHANGED <<payments, ledger>>
       ELSE /\ Cardinality(VoucherNumbers) < MaxVouchers
            /\ ledger' = ledger \o ReversalEntries(ledger, "PAYMENT", p,
                                      payments[p].payment_date, settings, today)
            /\ payments' = [payments EXCEPT ![p].is_posted = FALSE]
            /\ Called("reverse_payment_posting", p, "ok")
    /\ UNCHANGED <<configVars, invoiceVars, paymentSeq, poVars, issued, reqs>>

Next ==
    \/ \E data \in InvoiceCreateInputs : CreateInvoice(data)
    \/ \E i \in DOMAIN invoices : PostInvoice(i)
    \/ \E i \in DOMAIN invoices : ReverseInvoicePosting(i)
    \/ \E data \in PaymentCreateInputs, inv \in {0} \cup DOMAIN invoices :
          CreatePayment([data EXCEPT !.invoice_id = inv])
    \/ \E p \in DOMAIN payments : PostPayment(p)
    \/ \E p \in DOMAIN payments : ReversePaymentPosting(p)

Spec == Init /\ [][Next]_vars

\* ------------------------------------------------- reading the ledger back

\* the rows of the ledger that carry voucher number v, in insertion order
VoucherEntries(v) == SelectSeq(ledger, LAMBDA e : e.voucher_number = v)

TotalDebit(entries)  == SumSeq([k \in 1..Len(entries) |-> entries[k].debit])
TotalCredit(entries) == SumSeq([k \in 1..Len(entries) |-> entries[k].credit])

\* a row written by a reversal call (its narration starts with "Reversal: ")
IsReversalRow(e) == e.narration.reversals > 0

\* voucher numbers of one reference type
VouchersOf(reference_type) ==
    { ledger[k].voucher_number :
        k \in { j \in 1..Len(ledger) : ledger[j].reference_type = reference_type } }

\* voucher numbers written by post_* calls, and by reverse_* calls
PostingVouchers(reference_type) ==
    { v \in VouchersOf(reference_type) :
        \A k \in 1..Len(ledger) :
            ledger[k].voucher_number = v => ~IsReversalRow(ledger[k]) }
ReversalVouchers(reference_type) ==
    { v \in VouchersOf(reference_type) :
        \E k \in 1..Len(ledger) :
            ledger[k].voucher_number = v /\ IsReversalRow(ledger[k]) }

\* sum of debit - credit on one account over the rows of one document
NetMovement(reference_type, reference_id, account_id) ==
    LET rows == SelectSeq(ledger, LAMBDA e : /\ e.reference_type = reference_type
                                             /\ e.reference_id = reference_id
                                             /\ e.account_id = account_id)
    IN  TotalDebit(rows) - TotalCredit(rows)

LedgerAccounts == { ledger[k].account_id : k \in 1..Len(ledger) }

\* number of vouchers the ledger holds for one document
VoucherCount(reference_type, reference_id) ==
    Cardinality({ ledger[k].voucher_number :
        k \in { j \in 1..Len(ledger) : /\ ledger[j].reference_type = reference_type
                                       /\ ledger[j].reference_id = reference_id } })

\* ------------------------------------------------------------------ C1

\* C1: after any sequence of post_invoice and reverse_invoice_posting calls on
\* invoices of any type built by create_invoice, every voucher number of the
\* invoice ledger has total debit equal to total credit.
C1_InvoiceVouchersBalanced ==
    \A v \in VouchersOf("INVOICE") :
        TotalDebit(VoucherEntries(v)) = TotalCredit(VoucherEntries(v))

\* ------------------------------------------------------------------ C2

\* C2: every voucher written by post_payment (receipt or vendor payment) for a
\* payment built by create_payment has total debit equal to total credit.
C2_PaymentVouchersBalanced ==
    \A v \in PostingVouchers("PAYMENT") :
        TotalDebit(VoucherEntries(v)) = TotalCredit(VoucherEntries(v))

\* ------------------------------------------------------------------ C3

\* C3: for any invoice or payment that is not posted (never posted, or its last
\* post / reverse call was a successful reverse), debit minus credit summed
\* over all ledger rows of that document is zero on every account.
C3_ReversedDocumentNetsToZero ==
    /\ \A i \in DOMAIN invoices :
          ~invoices[i].is_posted =>
              \A a \in LedgerAccounts : NetMovement("INVOICE", i, a) = 0
    /\ \A p \in DOMAIN payments :
          ~payments[p].is_posted =>
              \A a \in LedgerAccounts : NetMovement("PAYMENT", p, a) = 0

\* an invoice that went through post, reverse, post, reverse
C3_Witness ==
    /\ lastCall.op = "reverse_invoice_posting"
    /\ lastCall.result = "ok"
    /\ ~invoices[lastCall.id].is_posted
    /\ VoucherCount("INVOICE", lastCall.id) = 4

\* ------------------------------------------------------------------ C4

\* position of the first row of voucher v
FirstRow(v) == CHOOSE k \in 1..Len(ledger) :
    /\ ledger[k].voucher_number = v
    /\ \A j \in 1..(k - 1) : ledger[j].voucher_number # v

\* the rows of the posting a reversal voucher v reverses: the document's last
\* post_* voucher written before v
PostingReversedBy(v) ==
    LET first  == FirstRow(v)
        doc    == ledger[first]
        before == { k \in 1..(first - 1) :
                      /\ ledger[k].reference_type = doc.reference_type
                      /\ ledger[k].reference_id = doc.reference_id
                      /\ ~IsReversalRow(ledger[k]) }
        last   == CHOOSE k \in before : \A j \in before : j <= k
    IN  VoucherEntries(ledger[last].voucher_number)

\* C4: every reversal voucher holds exactly one leg per leg of the posting it
\* reverses, same account with debit and credit swapped, under a voucher
\* number no earlier row carries.
C4_ReversalMirrorsPosting ==
    \A v \in ReversalVouchers("INVOICE") \cup ReversalVouchers("PAYMENT") :
        LET legs    == VoucherEntries(v)
            posting == PostingReversedBy(v)
        IN  /\ Len(legs) = Len(posting)
            /\ \A k \in 1..Len(legs) :
                  /\ legs[k].account_id = posting[k].account_id
                  /\ legs[k].debit = posting[k].credit
                  /\ legs[k].credit = posting[k].debit
            /\ \A k \in 1..Len(legs) : IsReversalRow(legs[k])

\* ------------------------------------------------------------------ C5

\* C5: post_invoice / post_payment on a posted document and
\* reverse_invoice_posting / reverse_payment_posting on an unposted document
\* raise ValueError, add no ledger row and leave is_posted as it was.
C5_PostingGuards ==
    [][ LET op == lastCall'.op
            id == lastCall'.id
            Rejected == /\ lastCall'.result = "ValueError"
                        /\ ledger' = ledger
                        /\ invoices' = invoices
                        /\ payments' = payments
        IN  /\ (op = "post_invoice" /\ invoices[id].is_posted) => Rejected
            /\ (op = "reverse_invoice_posting" /\ ~invoices[id].is_posted) => Rejected
            /\ (op = "post_payment" /\ payments[id].is_posted) => Rejected
            /\ (op = "reverse_payment_posting" /\ ~payments[id].is_posted) => Rejected
      ]_vars

\* a rejected post of a posted payment, the ledger still holding the payment's
\* single voucher, beside an invoice that was posted and reversed
C5_Witness ==
    /\ lastCall.op = "post_payment"
    /\ lastCall.result = "ValueError"
    /\ payments[lastCall.id].is_posted
    /\ VoucherCount("PAYMENT", lastCall.id) = 1
    /\ \E i \in DOMAIN invoices : ~invoices[i].is_posted /\ VoucherCount("INVOICE", i) = 2

\* ------------------------------------------------------------------ C6

\* numeric suffixes of the voucher numbers of one prefix and financial year
VoucherSuffixes(prefix, fy) ==
    { CastInteger(ledger[k].voucher_number.digits) :
        k \in { j \in 1..Len(ledger) : HasPrefix(ledger[j].voucher_number, prefix, fy) } }

\* C6: under serialized posting calls the voucher numbers of one prefix and
\* financial year carry the suffixes 0001, 0002, ... with no gaps: each new
\* voucher takes the highest suffix in use plus one.
C6_VoucherNumbersHaveNoGaps ==
    \A k \in 1..Len(ledger) :
        LET number == ledger[k].voucher_number
            used   == VoucherSuffixes(number.prefix, number.fy)
        IN  used = 1..Cardinality(used)

\* ------------------------------------------------------ document numbering

\* most document numbers handed out in one behaviour of SpecNumbering
MaxIssued == 3

\* requests of the numbering behaviours: one plain invoice per prefix family
NumberingInputs ==
    { [PlainInvoiceData EXCEPT !.invoice_type = t] : t \in {"SALES", "PURCHASE"} }

\* statuses PATCH /invoices/{id}/status is called with
StatusUpdates == {"DRAFT", "SENT", "CANCELLED"}

\* PATCH /invoices/{id}/status (invoices.update_invoice_status)
UpdateInvoiceStatus(i, status_update) ==
    /\ i \in DOMAIN invoices
    /\ invoices' = [invoices EXCEPT ![i].status = status_update]
    /\ Called("update_invoice_status", i, status_update)
    /\ UNCHANGED <<configVars, invoiceSeq, paymentVars, ledger, poVars, issued, reqs>>

\* billing_schedules.invoice_id and proforma_invoices.invoice_id are foreign
\* keys to invoices.id without ON DELETE: a referenced invoice cannot be deleted
InvoiceReferenced(i) ==
    \/ \E s \in DOMAIN schedules : schedules[s].invoice_id = i
    \/ \E q \in DOMAIN proformas : proformas[q].invoice_id = i

\* DELETE /invoices/{id} (invoices.delete_invoice); the ORM sets invoice_id of
\* the invoice's payments to NULL (Invoice.payments has no delete cascade)
DeleteInvoice(i) ==
    /\ i \in DOMAIN invoices
    /\ IF invoices[i].status # "DRAFT"
       THEN /\ Called("delete_invoice", i, "HTTP_400")
            /\ UNCHANGED <<invoices, payments>>
       ELSE IF InvoiceReferenced(i)
       THEN /\ Called("delete_invoice", i, "IntegrityError")
            /\ UNCHANGED <<invoices, payments>>
       ELSE /\ invoices' = [j \in DOMAIN invoices \ {i} |-> invoices[j]]
            /\ payments' = [p \in DOMAIN payments |->
                               IF payments[p].invoice_id = i
                               THEN [payments[p] EXCEPT !.invoice_id = 0]
                               ELSE payments[p]]
            /\ Called("delete_invoice", i, "ok")
    /\ UNCHANGED <<configVars, invoiceSeq, paymentSeq, ledger, poVars, issued, reqs>>

\* the calendar moves from March 2025 into April 2025, a new financial year
NextMonth ==
    /\ today = <<2025, 3>>
    /\ today' = <<2025, 4>>
    /\ Called("next_month", 0, "ok")
    /\ UNCHANGED <<settings, invoiceVars, paymentVars, ledger, poVars, issued, reqs>>

InitNumbering ==
    /\ today = <<2025, 3>>
    /\ settings = AllAccountsSettings
    /\ invoices = <<>>
    /\ invoiceSeq = 0
    /\ payments = <<>>
    /\ paymentSeq = 0
    /\ ledger = <<>>
    /\ clientPos = <<>>
    /\ schedules = <<>>
    /\ proformas = <<>>
    /\ idSeq = [client_pos |-> 0, billing_schedules |-> 0, proforma_invoices |-> 0]
    /\ issued = <<>>
    /\ lastCall = [op |-> "none", id |-> 0, result |-> "ok"]
    /\ reqs = <<>>

NumberedCreateInvoice(data) ==
    /\ Len(issued) < MaxIssued
    /\ InsertInvoice(data)

NextNumbering ==
    \/ \E data \in NumberingInputs : NumberedCreateInvoice(data)
    \/ \E i \in DOMAIN invoices, s \in StatusUpdates : UpdateInvoiceStatus(i, s)
    \/ \E i \in DOMAIN invoices : DeleteInvoice(i)
    \/ NextMonth

SpecNumbering == InitNumbering /\ [][NextNumbering]_vars

\* ------------------------------------------------------------------ C7

\* C7: over any serialized sequence of invoice creations and DRAFT deletions,
\* each number issued for a prefix and financial year is greater than every
\* number issued before it for that prefix and year, so none is issued twice.
C7_IssuedNumbersIncrease ==
    \A a \in 1..Len(issued), b \in 1..Len(issued) :
        (a < b /\ HasPrefix(issued[b], issued[a].prefix, issued[a].fy))
            => CastInteger(issued[a].digits) < CastInteger(issued[b].digits)

\* ----------------------------------------------------- concurrent requests

\* most requests in flight or finished in one behaviour of SpecConcurrent
MaxRequests == 3

\* two invoices created one after the other by create_invoice in April 2025
TwoInvoices ==
    LET first  == NewInvoiceRow(generate_invoice_number(<<>>, "SALES", <<2025, 4>>),
                                PlainInvoiceData)
        one    == 1 :> first
        second == NewInvoiceRow(generate_invoice_number(one, "SALES", <<2025, 4>>),
                                PlainInvoiceData)
    IN  one @@ (2 :> second)

InitConcurrent ==
    /\ today = <<2025, 4>>
    /\ settings = AllAccountsSettings
    /\ invoices = TwoInvoices
    /\ invoiceSeq = 2
    /\ payments = <<>>
    /\ paymentSeq = 0
    /\ ledger = <<>>
    /\ clientPos = <<>>
    /\ schedules = <<>>
    /\ proformas = <<>>
    /\ idSeq = [client_pos |-> 0, billing_schedules |-> 0, proforma_invoices |-> 0]
    /\ issued = <<>>
    /\ lastCall = [op |-> "none", id |-> 0, result |-> "ok"]
    /\ reqs = <<>>

\* a create_invoice request runs generate_invoice_number on the rows committed
\* so far (its own session, READ COMMITTED)
BeginCreateInvoice(data) ==
    /\ Len(reqs) < MaxRequests
    /\ reqs' = Append(reqs, [ kind   |-> "create_invoice",
                              pc     |-> "numbered",
                              number |-> generate_invoice_number(invoices,
                                             data.invoice_type, today),
                              data   |-> data ])
    /\ Called("generate_invoice_number", Len(reqs) + 1, "ok")
    /\ UNCHANGED <<configVars, invoiceVars, paymentVars, ledger, poVars, issued>>

\* the request's commit: invoices.invoice_number is unique, so the INSERT of a
\* number another request committed meanwhile fails with IntegrityError
CommitCreateInvoice(r) ==
    /\ r \in DOMAIN reqs
    /\ reqs[r].kind = "create_invoice"
    /\ reqs[r].pc = "numbered"
    /\ IF \E i \in DOMAIN invoices : invoices[i].invoice_number = reqs[r].number
       THEN /\ reqs' = [reqs EXCEPT ![r].pc = "failed"]
            /\ Called("create_invoice", r, "IntegrityError")
            /\ UNCHANGED <<invoices, invoiceSeq, issued>>
       ELSE /\ invoices' = invoices @@
                  ((invoiceSeq + 1) :> NewInvoiceRow(reqs[r].number, reqs[r].data))
            /\ invoiceSeq' = invoiceSeq + 1
            /\ issued' = Append(issued, reqs[r].number)
            /\ reqs' = [reqs EXCEPT ![r].pc = "done"]
            /\ Called("create_invoice", r, "ok")
    /\ UNCHANGED <<configVars, paymentVars, ledger, poVars>>

\* a post_invoice request reads the invoice, passes the is_posted guard and
\* builds its entries with generate_voucher_number on the rows committed so far
BeginPostInvoice(i) ==
    /\ Len(reqs) < MaxRequests
    /\ i \in DOMAIN invoices
    /\ ~AlreadyPosted(invoices[i])
    /\ LET entries == PostInvoiceEntries(ledger, i, invoices[i], settings)
       IN  reqs' = Append(reqs, [ kind    |-> "post_invoice",
                                  pc      |-> "numbered",
                                  number  |-> entries[1].voucher_number,
                                  invoice |-> i,
                                  entries |-> entries ])
    /\ Called("generate_voucher_number", Len(reqs) + 1, "ok")
    /\ UNCHANGED <<configVars, invoiceVars, paymentVars, ledger, poVars, issued>>

\* the request's commit: ledger_entries.voucher_number carries no unique
\* constraint, so the rows are inserted whatever other requests committed
CommitPostInvoice(r) ==
    /\ r \in DOMAIN reqs
    /\ reqs[r].kind = "post_invoice"
    /\ reqs[r].pc = "numbered"
    /\ ledger' = ledger \o reqs[r].entries
    /\ invoices' = [invoices EXCEPT ![reqs[r].invoice].is_posted = TRUE]
    /\ reqs' = [reqs EXCEPT ![r].pc = "done"]
    /\ Called("post_invoice", r, "ok")
    /\ UNCHANGED <<configVars, invoiceSeq, paymentVars, poVars, issued>>

NextConcurrent ==
    \/ \E data \in NumberingInputs : BeginCreateInvoice(data)
    \/ \E r \in DOMAIN reqs : CommitCreateInvoice(r)
    \/ \E i \in DOMAIN invoices : BeginPostInvoice(i)
    \/ \E r \in DOMAIN reqs : CommitPostInvoice(r)

SpecConcurrent == InitConcurrent /\ [][NextConcurrent]_vars

\* ------------------------------------------------------------------ C8

\* C8: two concurrent calls that generate a number for the same prefix and
\* financial year never obtain the same number: no two invoice creations hold
\* one invoice number, and no two postings share a voucher number.
C8_ConcurrentNumbersDistinct ==
    /\ \A r1 \in DOMAIN reqs, r2 \in DOMAIN reqs :
          (r1 # r2 /\ reqs[r1].kind = reqs[r2].kind)
              => reqs[r1].number # reqs[r2].number
    /\ \A v \in VouchersOf("INVOICE") :
          Cardinality({ VoucherEntries(v)[k].reference_id :
                           k \in 1..Len(VoucherEntries(v)) }) = 1

\* ------------------------------------------- client POs and fulfillment

\* most rows of client_pos, billing_schedules and proforma_invoices in one
\* behaviour of SpecFulfillment
MaxPos == 1
MaxSchedules == 2
MaxProformas == 1

ClientPOStatuses == {"DRAFT", "ACTIVE", "PARTIAL", "COMPLETED", "CANCELLED", "EXPIRED"}

\* client_pos.calculate_po_totals; item amounts arrive in paise, result in units
calculate_po_totals(items, is_igst, discount_percent, discount_amount) ==
    LET n        == Len(items)
        subtotal == SumSeq([k \in 1..n |-> ToUnits(items[k].amount)])
        discount == IF discount_percent > 0 THEN Percent(subtotal, discount_percent)
                    ELSE ToUnits(discount_amount)
        taxable_amount == subtotal - discount
        Gst(k)   == LET item_taxable ==
                          IF discount_percent > 0
                          THEN (ToUnits(items[k].amount) * (100 - discount_percent)) \div 100
                          ELSE ToUnits(items[k].amount)
                    IN  Percent(item_taxable, items[k].gst_rate)
        total_cgst == IF is_igst THEN 0 ELSE SumSeq([k \in 1..n |-> Half(Gst(k))])
        total_sgst == IF is_igst THEN 0 ELSE SumSeq([k \in 1..n |-> Half(Gst(k))])
        total_igst == IF is_igst THEN SumSeq([k \in 1..n |-> Gst(k)]) ELSE 0
        total_amount == taxable_amount + total_cgst + total_sgst + total_igst
    IN  [ subtotal         |-> subtotal,
          discount_percent |-> discount_percent,
          discount_amount  |-> discount,
          taxable_amount   |-> taxable_amount,
          cgst_amount      |-> total_cgst,
          sgst_amount      |-> total_sgst,
          igst_amount      |-> total_igst,
          total_amount     |-> total_amount,
          remaining_amount |-> total_amount ]

\* the ClientPO row create_client_po commits
NewClientPoRow(po_data) ==
    LET totals == calculate_po_totals(po_data.items, po_data.is_igst,
                                      po_data.discount_percent, po_data.discount_amount)
    IN  [ is_igst          |-> po_data.is_igst,
          billing_frequency |-> po_data.billing_frequency,
          valid_until      |-> po_data.valid_until,
          subtotal         |-> QuantizeNumeric(totals.subtotal),
          discount_percent |-> totals.discount_percent,
          discount_amount  |-> QuantizeNumeric(totals.discount_amount),
          taxable_amount   |-> QuantizeNumeric(totals.taxable_amount),
          cgst_amount      |-> QuantizeNumeric(totals.cgst_amount),
          sgst_amount      |-> QuantizeNumeric(totals.sgst_amount),
          igst_amount      |-> QuantizeNumeric(totals.igst_amount),
          total_amount     |-> QuantizeNumeric(totals.total_amount),
          invoiced_amount  |-> 0,
          remaining_amount |-> QuantizeNumeric(totals.remaining_amount),
          status           |-> "DRAFT" ]

\* the ClientPO row update_client_po commits: totals recomputed when the
\* request carries items, then every other field of the request set as given
UpdatedClientPoRow(client_po, po_data) ==
    LET Given(f) == IF f \in DOMAIN po_data THEN po_data[f] ELSE client_po[f]
        totals   == calculate_po_totals(po_data.items, Given("is_igst"),
                        Given("discount_percent"), Given("discount_amount"))
        retotalled ==
            IF "items" \in DOMAIN po_data
            THEN [client_po EXCEPT
                    !.subtotal         = QuantizeNumeric(totals.subtotal),
                    !.discount_percent = totals.discount_percent,
                    !.discount_amount  = QuantizeNumeric(totals.discount_amount),
                    !.taxable_amount   = QuantizeNumeric(totals.taxable_amount),
                    !.cgst_amount      = QuantizeNumeric(totals.cgst_amount),
                    !.sgst_amount      = QuantizeNumeric(totals.sgst_amount),
                    !.igst_amount      = QuantizeNumeric(totals.igst_amount),
                    !.total_amount     = QuantizeNumeric(totals.total_amount),
                    !.remaining_amount = QuantizeNumeric(totals.remaining_amount)]
            ELSE client_po
    IN  [ f \in DOMAIN client_po |->
            IF f \in DOMAIN po_data \ {"items"} THEN po_data[f] ELSE retotalled[f] ]

\* the BillingSchedule row create_billing_schedule commits (amounts in paise)
NewScheduleRow(schedule_data) ==
    [ client_po_id        |-> schedule_data.client_po_id,
      installment_number  |-> schedule_data.installment_number,
      due_date            |-> schedule_data.due_date,
      amount              |-> schedule_data.amount,
      gst_amount          |-> schedule_data.gst_amount,
      total_amount        |-> schedule_data.total_amount,
      status              |-> "PENDING",
      proforma_invoice_id |-> 0,
      invoice_id          |-> 0 ]

\* ClientPO.invoices: the invoices whose client_po_id is this PO
LinkedInvoices(rows, client_po_id) ==
    { i \in DOMAIN rows : rows[i].client_po_id = client_po_id }

\* sum of total_amount over a set of invoice ids
RECURSIVE SumTotals(_, _)
SumTotals(rows, ids) ==
    IF ids = {} THEN 0
    ELSE LET i == CHOOSE x \in ids : TRUE
         IN  rows[i].total_amount + SumTotals(rows, ids \ {i})

\* a recomputation that adds up cancelled invoices too
AnyStatus(invoice) == TRUE

\* the invoices update_po_fulfillment adds up
NotCancelled(invoice) == invoice.status # "CANCELLED"

\* fulfillment.update_po_fulfillment: the ClientPO row it leaves
update_po_fulfillment(rows, client_po, client_po_id) ==
    LET invoiced_amount ==
            SumTotals(rows, { i \in LinkedInvoices(rows, client_po_id) :
                                NotCancelled(rows[i]) })
    IN  [client_po EXCEPT
            !.invoiced_amount  = invoiced_amount,
            !.remaining_amount = client_po.total_amount - invoiced_amount,
            !.status = IF invoiced_amount = 0
                       THEN IF client_po.status \notin {"DRAFT", "CANCELLED", "EXPIRED"}
                            THEN "ACTIVE" ELSE @
                       ELSE IF invoiced_amount >= client_po.total_amount
                            THEN "COMPLETED" ELSE "PARTIAL"]

\* "Calculate GST split" of fulfillment.create_invoice_from_schedule (and of
\* create_pi_from_schedule): gst_amount in units, result in units
ScheduleGstSplit(gst_amount, is_igst) ==
    [ cgst_amount |-> IF is_igst THEN 0 ELSE Half(gst_amount),
      sgst_amount |-> IF is_igst THEN 0 ELSE Half(gst_amount),
      igst_amount |-> IF is_igst THEN gst_amount ELSE 0 ]

\* client_pos.calculate_gst_amounts; item_data holds amount (in paise) and
\* gst_rate; the result is in units
calculate_gst_amounts(item_data, is_igst) ==
    LET amount     == ToUnits(item_data.amount)
        gst_amount == Percent(amount, item_data.gst_rate)
        half_gst   == Half(gst_amount)
    IN  [ cgst_amount  |-> IF is_igst THEN 0 ELSE half_gst,
          sgst_amount  |-> IF is_igst THEN 0 ELSE half_gst,
          igst_amount  |-> IF is_igst THEN gst_amount ELSE 0,
          total_amount |-> amount + gst_amount ]

\* the Invoice row fulfillment.create_invoice_from_schedule builds
ScheduleInvoiceRow(invoice_number, invoice_date, schedule_id, schedule, client_po) ==
    LET is_igst     == client_po.is_igst
        split       == ScheduleGstSplit(ToUnits(schedule.gst_amount), is_igst)
        cgst_amount == QuantizeNumeric(split.cgst_amount)
        sgst_amount == QuantizeNumeric(split.sgst_amount)
        igst_amount == QuantizeNumeric(split.igst_amount)
    IN  [ invoice_number      |-> invoice_number,
          invoice_date        |-> invoice_date,
          invoice_type        |-> "SALES",
          client_po_id        |-> schedule.client_po_id,
          billing_schedule_id |-> schedule_id,
          is_igst             |-> is_igst,
          discount_percent    |-> 0,
          tds_applicable      |-> FALSE,
          tds_rate            |-> 0,
          tcs_applicable      |-> FALSE,
          tcs_rate            |-> 0,
          items               |-> << [ amount          |-> schedule.amount,
                                       discount_amount |-> 0,
                                       taxable_amount  |-> schedule.amount,
                                       cgst_amount     |-> cgst_amount,
                                       sgst_amount     |-> sgst_amount,
                                       igst_amount     |-> igst_amount,
                                       cess_amount     |-> 0,
                                       total_amount    |-> schedule.total_amount ] >>,
          subtotal            |-> schedule.amount,
          discount_amount     |-> 0,
          taxable_amount      |-> schedule.amount,
          cgst_amount         |-> cgst_amount,
          sgst_amount         |-> sgst_amount,
          igst_amount         |-> igst_amount,
          cess_amount         |-> 0,
          round_off           |-> 0,
          total_amount        |-> schedule.total_amount,
          tds_amount          |-> 0,
          tcs_amount          |-> 0,
          amount_after_tds    |-> schedule.total_amount,
          amount_due          |-> schedule.total_amount,
          amount_paid         |-> 0,
          status              |-> "DRAFT",
          is_posted           |-> FALSE ]

\* proforma_invoices.calculate_pi_item_amounts, in units
calculate_pi_item_amounts(item_data, is_igst) ==
    LET amount          == item_data.quantity * ToUnits(item_data.rate)
        discount_amount == Percent(amount, item_data.discount_percent)
        taxable_amount  == amount - discount_amount
        gst_amount      == Percent(taxable_amount, item_data.gst_rate)
        cess_amount     == Percent(taxable_amount, item_data.cess_rate)
    IN  [ amount          |-> amount,
          discount_amount |-> discount_amount,
          taxable_amount  |-> taxable_amount,
          cgst_amount     |-> IF is_igst THEN 0 ELSE Half(gst_amount),
          sgst_amount     |-> IF is_igst THEN 0 ELSE Half(gst_amount),
          igst_amount     |-> IF is_igst THEN gst_amount ELSE 0,
          cess_amount     |-> cess_amount,
          total_amount    |-> taxable_amount + gst_amount + cess_amount ]

\* the ProformaInvoice row create_proforma_invoice commits
NewProformaRow(pi_data) ==
    LET n == Len(pi_data.items)
        amounts  == [ k \in 1..n |-> calculate_pi_item_amounts(pi_data.items[k],
                                                                pi_data.is_igst) ]
        subtotal == SumSeq([k \in 1..n |-> amounts[k].amount])
        discount_amount == Percent(subtotal, pi_data.discount_percent)
        taxable_amount  == subtotal - discount_amount
        Scaled(x) == IF pi_data.discount_percent > 0
                     THEN (x * (100 - pi_data.discount_percent)) \div 100 ELSE x
        total_cgst == Scaled(SumSeq([k \in 1..n |-> amounts[k].cgst_amount]))
        total_sgst == Scaled(SumSeq([k \in 1..n |-> amounts[k].sgst_amount]))
        total_igst == Scaled(SumSeq([k \in 1..n |-> amounts[k].igst_amount]))
        total_cess == Scaled(SumSeq([k \in 1..n |-> amounts[k].cess_amount]))
        before_tcs == taxable_amount + total_cgst + total_sgst + total_igst + total_cess
        tds_amount == IF pi_data.tds_applicable
                      THEN Percent(taxable_amount, pi_data.tds_rate) ELSE 0
        tcs_amount == IF pi_data.tcs_applicable
                      THEN Percent(before_tcs, pi_data.tcs_rate) ELSE 0
        total_amount == before_tcs + tcs_amount
    IN  [ client_po_id        |-> pi_data.client_po_id,
          billing_schedule_id |-> pi_data.billing_schedule_id,
          is_igst             |-> pi_data.is_igst,
          discount_percent    |-> pi_data.discount_percent,
          tds_applicable      |-> pi_data.tds_applicable,
          tds_rate            |-> pi_data.tds_rate,
          tcs_applicable      |-> pi_data.tcs_applicable,
          tcs_rate            |-> pi_data.tcs_rate,
          items               |-> [ k \in 1..n |-> StoredItem(amounts[k]) ],
          subtotal            |-> QuantizeNumeric(subtotal),
          discount_amount     |-> QuantizeNumeric(discount_amount),
          taxable_amount      |-> QuantizeNumeric(taxable_amount),
          cgst_amount         |-> QuantizeNumeric(total_cgst),
          sgst_amount         |-> QuantizeNumeric(total_sgst),
          igst_amount         |-> QuantizeNumeric(total_igst),
          cess_amount         |-> QuantizeNumeric(total_cess),
          round_off           |-> 0,
          total_amount        |-> QuantizeNumeric(total_amount),
          tds_amount          |-> QuantizeNumeric(tds_amount),
          tcs_amount          |-> QuantizeNumeric(tcs_amount),
          amount_after_tds    |-> QuantizeNumeric(total_amount - tds_amount),
          status              |-> "DRAFT",
          invoice_id          |-> 0 ]

\* the Invoice row generate_invoice_from_pi copies from a proforma invoice
ProformaInvoiceRow(invoice_number, invoice_date, pi) ==
    [ invoice_number      |-> invoice_number,
      invoice_date        |-> invoice_date,
      invoice_type        |-> "SALES",
      client_po_id        |-> pi.client_po_id,
      billing_schedule_id |-> pi.billing_schedule_id,
      is_igst             |-> pi.is_igst,
      discount_percent    |-> pi.discount_percent,
      tds_applicable      |-> pi.tds_applicable,
      tds_rate            |-> pi.tds_rate,
      tcs_applicable      |-> pi.tcs_applicable,
      tcs_rate            |-> pi.tcs_rate,
      items               |-> pi.items,
      subtotal            |-> pi.subtotal,
      discount_amount     |-> pi.discount_amount,
      taxable_amount      |-> pi.taxable_amount,
      cgst_amount         |-> pi.cgst_amount,
      sgst_amount         |-> pi.sgst_amount,
      igst_amount         |-> pi.igst_amount,
      cess_amount         |-> pi.cess_amount,
      round_off           |-> pi.round_off,
      total_amount        |-> pi.total_amount,
      tds_amount          |-> pi.tds_amount,
      tcs_amount          |-> pi.tcs_amount,
      amount_after_tds    |-> pi.amount_after_tds,
      amount_due          |-> pi.amount_after_tds,
      amount_paid         |-> 0,
      status              |-> "DRAFT",
      is_posted           |-> FALSE ]

\* the ProformaInvoice row fulfillment.create_pi_from_schedule builds
SchedulePiRow(schedule_id, schedule, client_po) ==
    LET is_igst     == client_po.is_igst
        split       == ScheduleGstSplit(ToUnits(schedule.gst_amount), is_igst)
        cgst_amount == QuantizeNumeric(split.cgst_amount)
        sgst_amount == QuantizeNumeric(split.sgst_amount)
        igst_amount == QuantizeNumeric(split.igst_amount)
    IN  [ client_po_id        |-> 0,
          billing_schedule_id |-> schedule_id,
          is_igst             |-> is_igst,
          discount_percent    |-> 0,
          tds_applicable      |-> FALSE,
          tds_rate            |-> 0,
          tcs_applicable      |-> FALSE,
          tcs_rate            |-> 0,
          items               |-> << [ amount          |-> schedule.amount,
                                       discount_amount |-> 0,
                                       taxable_amount  |-> schedule.amount,
                                       cgst_amount     |-> cgst_amount,
                                       sgst_amount     |-> sgst_amount,
                                       igst_amount     |-> igst_amount,
                                       cess_amount     |-> 0,
                                       total_amount    |-> schedule.total_amount ] >>,
          subtotal            |-> schedule.amount,
          discount_amount     |-> 0,
          taxable_amount      |-> schedule.amount,
          cgst_amount         |-> cgst_amount,
          sgst_amount         |-> sgst_amount,
          igst_amount         |-> igst_amount,
          cess_amount         |-> 0,
          round_off           |-> 0,
          total_amount        |-> schedule.total_amount,
          tds_amount          |-> 0,
          tcs_amount          |-> 0,
          amount_after_tds    |-> schedule.total_amount,
          status              |-> "DRAFT",
          invoice_id          |-> 0 ]

\* request bodies of the fulfillment behaviours
PoCreateInputs ==
    { [ items |-> << [amount |-> 10000, gst_rate |-> 18] >>, is_igst |-> FALSE,
        discount_percent |-> 0, discount_amount |-> 0,
        billing_frequency |-> "MONTHLY", valid_until |-> NoDate ] }

ScheduleAmounts ==
    { [amount |-> 0,     gst_amount |-> 0,    total_amount |-> 0],
      [amount |-> 5000,  gst_amount |-> 900,  total_amount |-> 5900],
      [amount |-> 10000, gst_amount |-> 1800, total_amount |-> 11800] }

PlainPiData ==
    [ client_po_id |-> 0, billing_schedule_id |-> 0, is_igst |-> FALSE,
      items |-> <<PlainItem>>, discount_percent |-> 0,
      tds_applicable |-> FALSE, tds_rate |-> 0,
      tcs_applicable |-> FALSE, tcs_rate |-> 0 ]

\* statuses PATCH /client-pos/{id}/status is called with
ClientPoStatusUpdates == {"ACTIVE", "CANCELLED"}

\* POST /client-pos (client_pos.create_client_po)
CreateClientPo(po_data) ==
    /\ idSeq.client_pos < MaxPos
    /\ LET id == idSeq.client_pos + 1
       IN  /\ clientPos' = clientPos @@ (id :> NewClientPoRow(po_data))
           /\ idSeq' = [idSeq EXCEPT !.client_pos = id]
           /\ Called("create_client_po", id, "ok")
    /\ UNCHANGED <<configVars, invoiceVars, paymentVars, ledger, schedules,
                   proformas, issued, reqs>>

\* PATCH /client-pos/{id} (client_pos.update_client_po)
UpdateClientPo(po, po_data) ==
    /\ po \in DOMAIN clientPos
    /\ IF clientPos[po].status \notin {"DRAFT", "ACTIVE"}
       THEN /\ Called("update_client_po", po, "HTTP_400")
            /\ UNCHANGED clientPos
       ELSE /\ clientPos' = [clientPos EXCEPT ![po] = UpdatedClientPoRow(@, po_data)]
            /\ Called("update_client_po", po, "ok")
    /\ UNCHANGED <<configVars, invoiceVars, paymentVars, ledger, schedules,
                   proformas, idSeq, issued, reqs>>

\* PATCH /client-pos/{id}/status (client_pos.update_client_po_status)
UpdateClientPoStatus(po, new_status) ==
    /\ po \in DOMAIN clientPos
    /\ clientPos' = [clientPos EXCEPT ![po].status = new_status]
    /\ Called("update_client_po_status", po, new_status)
    /\ UNCHANGED <<configVars, invoiceVars, paymentVars, ledger, schedules,
                   proformas, idSeq, issued, reqs>>

\* POST /client-pos/{id}/schedules (client_pos.create_billing_schedule)
CreateBillingSchedule(po, amounts) ==
    /\ po \in DOMAIN clientPos
    /\ idSeq.billing_schedules < MaxSchedules
    /\ LET id == idSeq.billing_schedules + 1
       IN  /\ schedules' = schedules @@ (id :> NewScheduleRow(
                  [ client_po_id |-> po, installment_number |-> 1,
                    due_date |-> <<2025, 4, 1>>, amount |-> amounts.amount,
                    gst_amount |-> amounts.gst_amount,
                    total_amount |-> amounts.total_amount ]))
           /\ idSeq' = [idSeq EXCEPT !.billing_schedules = id]
           /\ Called("create_billing_schedule", id, "ok")
    /\ UNCHANGED <<configVars, invoiceVars, paymentVars, ledger, clientPos,
                   proformas, issued, reqs>>

\* POST /client-pos/{id}/schedules/{sid}/create-invoice: the endpoint, the
\* service fulfillment.create_invoice_from_schedule with its closing
\* update_po_fulfillment, and the commit
CreateInvoiceFromSchedule(s) ==
    /\ s \in DOMAIN schedules
    /\ IF schedules[s].status # "PENDING"
       THEN /\ Called("create_invoice_from_schedule", s, "HTTP_400")
            /\ UNCHANGED <<invoices, invoiceSeq, schedules, clientPos, issued>>
       ELSE LET id     == invoiceSeq + 1
                po     == schedules[s].client_po_id
                number == generate_invoice_number(invoices, "SALES", today)
                rows   == invoices @@ (id :> ScheduleInvoiceRow(number, today, s,
                                                   schedules[s], clientPos[po]))
            IN  /\ invoices' = rows
                /\ invoiceSeq' = id
                /\ schedules' = [schedules EXCEPT ![s].status = "INVOICED",
                                                  ![s].invoice_id = id]
                /\ clientPos' = [clientPos EXCEPT
                                    ![po] = update_po_fulfillment(rows, @, po)]
                /\ issued' = Append(issued, number)
                /\ Called("create_invoice_from_schedule", s, "ok")
    /\ UNCHANGED <<configVars, paymentVars, ledger, proformas, idSeq, reqs>>

\* POST /proforma-invoices (proforma_invoices.create_proforma_invoice)
CreateProformaInvoice(pi_data) ==
    /\ idSeq.proforma_invoices < MaxProformas
    /\ pi_data.client_po_id = 0 \/ pi_data.client_po_id \in DOMAIN clientPos
    /\ pi_data.billing_schedule_id = 0 \/ pi_data.billing_schedule_id \in DOMAIN schedules
    /\ LET id == idSeq.proforma_invoices + 1
       IN  /\ proformas' = proformas @@ (id :> NewProformaRow(pi_data))
           /\ idSeq' = [idSeq EXCEPT !.proforma_invoices = id]
           /\ schedules' = IF pi_data.billing_schedule_id # 0
                           THEN [schedules EXCEPT
                                   ![pi_data.billing_schedule_id].proforma_invoice_id = id,
                                   ![pi_data.billing_schedule_id].status = "PI_RAISED"]
                           ELSE schedules
           /\ Called("create_proforma_invoice", id, "ok")
    /\ UNCHANGED <<configVars, invoiceVars, paymentVars, ledger, clientPos,
                   issued, reqs>>

\* POST /proforma-invoices/{id}/generate-invoice
\* (proforma_invoices.generate_invoice_from_pi); pi.invoice_id is assigned
\* before the invoice is flushed, so it receives no id
GenerateInvoiceFromPi(q) ==
    /\ q \in DOMAIN proformas
    /\ IF proformas[q].status = "GENERATED"
       THEN /\ Called("generate_invoice_from_pi", q, "HTTP_400")
            /\ UNCHANGED <<invoices, invoiceSeq, schedules, proformas, issued>>
       ELSE LET id     == invoiceSeq + 1
                number == generate_invoice_number(invoices, "SALES", today)
                sid    == proformas[q].billing_schedule_id
            IN  /\ invoices' = invoices @@
                       (id :> ProformaInvoiceRow(number, today, proformas[q]))
                /\ invoiceSeq' = id
                /\ proformas' = [proformas EXCEPT ![q].status = "GENERATED",
                                                  ![q].invoice_id = 0]
                /\ schedules' = IF sid # 0 /\ sid \in DOMAIN schedules
                                THEN [schedules EXCEPT ![sid].invoice_id = id,
                                                       ![sid].status = "INVOICED"]
                                ELSE schedules
                /\ issued' = Append(issued, number)
                /\ Called("generate_invoice_from_pi", q, "ok")
    /\ UNCHANGED <<configVars, paymentVars, ledger, clientPos, idSeq, reqs>>

\* POST /client-pos/{id}/schedules/{sid}/create-pi: the endpoint, the service
\* fulfillment.create_pi_from_schedule, and the commit
CreatePiFromSchedule(s) ==
    /\ s \in DOMAIN schedules
    /\ IF schedules[s].status # "PENDING"
       THEN /\ Called("create_pi_from_schedule", s, "HTTP_400")
            /\ UNCHANGED <<schedules, proformas, idSeq>>
       ELSE /\ idSeq.proforma_invoices < MaxProformas
            /\ LET id == idSeq.proforma_invoices + 1
                    po == schedules[s].client_po_id
               IN  /\ proformas' = proformas @@
                          (id :> SchedulePiRow(s, schedules[s], clientPos[po]))
                   /\ idSeq' = [idSeq EXCEPT !.proforma_invoices = id]
                   /\ schedules' = [schedules EXCEPT ![s].status = "PI_RAISED",
                                                     ![s].proforma_invoice_id = id]
                   /\ Called("create_pi_from_schedule", s, "ok")
    /\ UNCHANGED <<configVars, invoiceVars, paymentVars, ledger, clientPos,
                   issued, reqs>>

\* the proforma_invoices rows left once row q is deleted
WithoutProforma(q) == [ r \in DOMAIN proformas \ {q} |-> proformas[r] ]

\* DELETE /proforma-invoices/{id} (proforma_invoices.delete_proforma_invoice)
DeleteProformaInvoice(q) ==
    /\ q \in DOMAIN proformas
    /\ IF proformas[q].status # "DRAFT"
       THEN /\ Called("delete_proforma_invoice", q, "HTTP_400")
            /\ UNCHANGED <<schedules, proformas>>
       ELSE LET sid == proformas[q].billing_schedule_id
            IN  /\ schedules' = IF sid # 0 /\ sid \in DOMAIN schedules
                                THEN [schedules EXCEPT ![sid].proforma_invoice_id = 0,
                                                       ![sid].status = "PENDING"]
                                ELSE schedules
                /\ proformas' = WithoutProforma(q)
                /\ Called("delete_proforma_invoice", q, "ok")
    /\ UNCHANGED <<configVars, invoiceVars, paymentVars, ledger, clientPos, idSeq,
                   issued, reqs>>

NextFulfillment ==
    \/ \E po_data \in PoCreateInputs : CreateClientPo(po_data)
    \/ \E po \in DOMAIN clientPos, st \in ClientPoStatusUpdates :
          UpdateClientPoStatus(po, st)
    \/ \E po \in DOMAIN clientPos, amounts \in ScheduleAmounts :
          CreateBillingSchedule(po, amounts)
    \/ \E s \in DOMAIN schedules : CreateInvoiceFromSchedule(s)
    \/ \E po \in {0} \cup DOMAIN clientPos, s \in {0} \cup DOMAIN schedules :
          CreateProformaInvoice([PlainPiData EXCEPT !.client_po_id = po,
                                                    !.billing_schedule_id = s])
    \/ \E q \in DOMAIN proformas : GenerateInvoiceFromPi(q)
    \/ \E i \in DOMAIN invoices, st \in {"SENT", "CANCELLED"} :
          UpdateInvoiceStatus(i, st)
    \/ \E i \in DOMAIN invoices : DeleteInvoice(i)

SpecFulfillment == Init /\ [][NextFulfillment]_vars

\* ------------------------------------------------------------------ C9

\* total_amount summed over the invoices of rows linked to po and not CANCELLED
LinkedTotal(rows, po) ==
    SumTotals(rows, { i \in DOMAIN rows : /\ rows[i].client_po_id = po
                                          /\ rows[i].status # "CANCELLED" })

\* C9: after any sequence of operations that create, cancel or delete invoices
\* linked to a client PO, the PO's invoiced_amount equals the sum of
\* total_amount over its linked invoices whose status is not CANCELLED.
C9_InvoicedAmountTracksInvoices ==
    \A po \in DOMAIN clientPos :
        clientPos[po].invoiced_amount = LinkedTotal(invoices, po)

\* ------------------------------------------------------------------ C10

\* C10: update_po_fulfillment, as run by create_invoice_from_schedule, sets
\* invoiced_amount to the sum of total_amount over the PO's linked invoices
\* that are not CANCELLED and remaining_amount to total_amount minus that sum;
\* the status becomes COMPLETED when the sum is not 0 and reaches total_amount,
\* PARTIAL when it lies strictly between 0 and total_amount, ACTIVE when it is
\* 0, except that a DRAFT, CANCELLED or EXPIRED status is then left unchanged.
C10_FulfillmentRecomputed ==
    [][ (lastCall'.op = "create_invoice_from_schedule" /\ lastCall'.result = "ok") =>
            LET po      == schedules[lastCall'.id].client_po_id
                before  == clientPos[po]
                after   == clientPos'[po]
                sum     == LinkedTotal(invoices', po)
                kept    == {"DRAFT", "CANCELLED", "EXPIRED"}
            IN  /\ after.total_amount = before.total_amount
                /\ after.invoiced_amount = sum
                /\ after.remaining_amount = before.total_amount - sum
                /\ (sum # 0 /\ sum >= before.total_amount) => after.status = "COMPLETED"
                /\ (0 < sum /\ sum < before.total_amount) => after.status = "PARTIAL"
                /\ (sum = 0 /\ before.status \notin kept) => after.status = "ACTIVE"
                /\ (sum = 0 /\ before.status \in kept) => after.status = before.status
      ]_vars

\* a PO of 118.00 with a CANCELLED linked invoice and a fresh one of 59.00:
\* invoiced 59.00, remaining 59.00, PARTIAL
C10_Witness ==
    /\ lastCall.op = "create_invoice_from_schedule"
    /\ lastCall.result = "ok"
    /\ \E po \in DOMAIN clientPos :
          /\ \E i \in DOMAIN invoices : /\ invoices[i].client_po_id = po
                                        /\ invoices[i].status = "CANCELLED"
                                        /\ invoices[i].total_amount > 0
          /\ clientPos[po].invoiced_amount = 5900
          /\ clientPos[po].remaining_amount = 5900
          /\ clientPos[po].status = "PARTIAL"

\* ------------------------------------------- invoice and payment settlement

MaxSettledInvoices == 2

\* longest run of reversal legs db.add-ed before an injected failure
MaxFaultStep == 2

\* update_payment is explored while no invoice's amount_paid exceeds this (paise)
MaxAmountPaid == 20000

\* setattr(row, field, value) for every field the request body sets
SetFields(row, update_data) ==
    [ f \in DOMAIN row |-> IF f \in DOMAIN update_data THEN update_data[f] ELSE row[f] ]

\* "Update items if provided" of invoices.update_invoice: the totals are
\* recomputed from the new items and the invoice's own rates, amount_due from
\* the unrounded amount_after_tds and the stored amount_paid
RecalculatedInvoice(invoice, items) ==
    LET amounts == [ k \in 1..Len(items) |->
                       calculate_invoice_item_amounts(items[k], invoice.is_igst) ]
        t == InvoiceTotals(amounts, invoice.discount_percent, invoice.tds_applicable,
                           invoice.tds_rate, invoice.tcs_applicable, invoice.tcs_rate)
    IN  [ invoice EXCEPT
            !.items            = [ k \in 1..Len(amounts) |-> StoredItem(amounts[k]) ],
            !.subtotal         = QuantizeNumeric(t.subtotal),
            !.discount_amount  = QuantizeNumeric(t.discount_amount),
            !.taxable_amount   = QuantizeNumeric(t.taxable_amount),
            !.cgst_amount      = QuantizeNumeric(t.cgst_amount),
            !.sgst_amount      = QuantizeNumeric(t.sgst_amount),
            !.igst_amount      = QuantizeNumeric(t.igst_amount),
            !.cess_amount      = QuantizeNumeric(t.cess_amount),
            !.round_off        = QuantizeNumeric(t.round_off),
            !.total_amount     = QuantizeNumeric(t.total_amount),
            !.tds_amount       = QuantizeNumeric(t.tds_amount),
            !.tcs_amount       = QuantizeNumeric(t.tcs_amount),
            !.amount_after_tds = QuantizeNumeric(t.amount_after_tds),
            !.amount_due       = QuantizeNumeric(t.amount_after_tds
                                                 - ToUnits(invoice.amount_paid)) ]

\* PATCH /invoices/{id} (invoices.update_invoice); invoice_data is
\* [update_data: the basic fields the body sets, has_items, items]
UpdateInvoice(i, invoice_data) ==
    /\ i \in DOMAIN invoices
    /\ IF invoices[i].status # "DRAFT"
       THEN /\ Called("update_invoice", i, "HTTP_400")
            /\ UNCHANGED invoices
       ELSE LET basic == SetFields(invoices[i], invoice_data.update_data)
            IN  /\ invoices' = [invoices EXCEPT ![i] =
                                  IF invoice_data.has_items
                                  THEN RecalculatedInvoice(basic, invoice_data.items)
                                  ELSE basic]
                /\ Called("update_invoice", i, "ok")
    /\ UNCHANGED <<configVars, invoiceSeq, paymentVars, ledger, poVars, issued, reqs>>

\* the "Reverse old invoice update" block of update_payment and the "Reverse
\* invoice update if linked" block of delete_payment (stored amounts, paise)
UnapplyPaymentFromInvoice(invoice, net_amount) ==
    LET paid == invoice.amount_paid - net_amount
        due  == invoice.amount_after_tds - paid
    IN  [invoice EXCEPT !.amount_paid = paid,
                        !.amount_due  = due,
                        !.status = IF due >= invoice.amount_after_tds
                                   THEN "SENT" ELSE "PARTIAL"]

\* the "net amount changed but invoice_id same" block of update_payment:
\* old_net_amount is the stored amount (paise), net_amount the session's Decimal
ReapplyPaymentToInvoice(invoice, old_net_amount, net_amount) ==
    LET paid == ToUnits(invoice.amount_paid) - ToUnits(old_net_amount) + net_amount
        due  == ToUnits(invoice.amount_after_tds) - paid
    IN  [invoice EXCEPT !.amount_paid = QuantizeNumeric(paid),
                        !.amount_due  = QuantizeNumeric(due),
                        !.status = IF due <= 0 THEN "PAID"
                                   ELSE IF paid > 0 THEN "PARTIAL" ELSE "SENT"]

\* the value a payment attribute holds in the session after the setattr loop of
\* update_payment, in units
SessionAmount(payment, payment_data, field) ==
    IF field \in DOMAIN payment_data THEN payment_data[field]
    ELSE ToUnits(payment[field])

\* PATCH /payments/{id} (payments.update_payment); payment_data holds the
\* fields the body sets, invoice_id 0 standing for an explicit null
UpdatePayment(p, payment_data) ==
    /\ p \in DOMAIN payments
    /\ LET payment        == payments[p]
           old_invoice_id == payment.invoice_id
           old_net_amount == payment.net_amount
           amounts_set    == DOMAIN payment_data
                               \cap {"gross_amount", "tds_amount", "tcs_amount"} # {}
           net_amount     == IF amounts_set
                             THEN SessionAmount(payment, payment_data, "gross_amount")
                                  - SessionAmount(payment, payment_data, "tds_amount")
                                  + SessionAmount(payment, payment_data, "tcs_amount")
                             ELSE ToUnits(old_net_amount)
           new_invoice_id == IF "invoice_id" \in DOMAIN payment_data
                             THEN payment_data.invoice_id ELSE old_invoice_id
           unapplied      == IF old_invoice_id # 0 /\ old_invoice_id \in DOMAIN invoices
                             THEN [invoices EXCEPT ![old_invoice_id] =
                                     UnapplyPaymentFromInvoice(@, old_net_amount)]
                             ELSE invoices
       IN  /\ new_invoice_id = 0 \/ new_invoice_id \in DOMAIN invoices
           /\ payments' = [payments EXCEPT ![p] =
                  [ SetFields(payment, payment_data) EXCEPT
                      !.gross_amount = QuantizeNumeric(
                           SessionAmount(payment, payment_data, "gross_amount")),
                      !.tds_amount   = QuantizeNumeric(
                           SessionAmount(payment, payment_data, "tds_amount")),
                      !.tcs_amount   = QuantizeNumeric(
                           SessionAmount(payment, payment_data, "tcs_amount")),
                      !.net_amount   = QuantizeNumeric(net_amount) ]]
           /\ invoices' =
                IF /\ "invoice_id" \in DOMAIN payment_data
                   /\ payment_data.invoice_id # 0
                   /\ payment_data.invoice_id # old_invoice_id
                THEN [unapplied EXCEPT ![new_invoice_id] =
                        ApplyPaymentToInvoice(@, net_amount)]
                ELSE IF /\ old_invoice_id # 0
                        /\ net_amount # ToUnits(old_net_amount)
                        /\ old_invoice_id \in DOMAIN invoices
                THEN [invoices EXCEPT ![old_invoice_id] =
                        ReapplyPaymentToInvoice(@, old_net_amount, net_amount)]
                ELSE invoices
           /\ Called("update_payment", p, "ok")
    /\ UNCHANGED <<configVars, invoiceSeq, paymentSeq, ledger, poVars, issued, reqs>>

\* the rows of f other than id
Without(f, id) == [ k \in DOMAIN f \ {id} |-> f[k] ]

\* DELETE /payments/{id} (payments.delete_payment). The reversal of a posted
\* payment runs inside try/except: fault = 0 lets reverse_payment_posting
\* finish, fault = k > 0 makes it raise while building its k-th reversal leg,
\* after the first k - 1 legs were db.add-ed to the session. The handler then
\* reverses the invoice update, deletes the payment and commits the session.
DeletePayment(p, fault) ==
    /\ p \in DOMAIN payments
    /\ LET payment  == payments[p]
           reversal == ReversalEntries(ledger, "PAYMENT", p, payment.payment_date,
                                       settings, today)
           inv      == payment.invoice_id
       IN  /\ fault <= (IF payment.is_posted THEN Len(reversal) ELSE 0)
           /\ ledger' = IF ~payment.is_posted THEN ledger
                        ELSE IF fault = 0 THEN ledger \o reversal
                        ELSE ledger \o SubSeq(reversal, 1, fault - 1)
           /\ invoices' = IF inv # 0 /\ inv \in DOMAIN invoices
                          THEN [invoices EXCEPT ![inv] =
                                  UnapplyPaymentFromInvoice(@, payment.net_amount)]
                          ELSE invoices
           /\ payments' = Without(payments, p)
           /\ Called("delete_payment", p, IF fault = 0 THEN "ok" ELSE "reversal_failed")
    /\ UNCHANGED <<configVars, invoiceSeq, paymentSeq, poVars, issued, reqs>>

\* request bodies of the settlement behaviours
SettlementInvoiceInputs ==
    { [PlainInvoiceData EXCEPT !.items = <<RoundDownItem>>,
                               !.tds_applicable = TRUE, !.tds_rate = 10] }

InvoiceUpdateInputs ==
    { [update_data |-> [tds_applicable |-> TRUE, tds_rate |-> 10],
       has_items |-> TRUE, items |-> <<CessItem>>],
      [update_data |-> [status |-> "SENT"],
       has_items |-> FALSE, items |-> <<>>] }

\* 100.00; 100.00 less TDS of 10.005
SettlementPaymentInputs ==
    { PlainPaymentData,
      [PlainPaymentData EXCEPT !.tds_amount = ToUnits(1000) + 1000] }

PaymentUpdateInputs(ids) ==
    { [gross_amount |-> ToUnits(11800)] }
    \cup { [invoice_id |-> id] : id \in {0} \cup ids }

\* a database holding one client PO with one PENDING billing schedule and one
\* stand-alone proforma invoice, as create_client_po, create_billing_schedule
\* and create_proforma_invoice leave them
InitSettlement ==
    /\ today = <<2025, 4>>
    /\ settings = AllAccountsSettings
    /\ invoices = <<>>
    /\ invoiceSeq = 0
    /\ payments = <<>>
    /\ paymentSeq = 0
    /\ ledger = <<>>
    /\ clientPos \in { (1 :> NewClientPoRow(po_data)) : po_data \in PoCreateInputs }
    /\ schedules = (1 :> NewScheduleRow([ client_po_id |-> 1, installment_number |-> 1,
                                          due_date |-> <<2025, 4, 1>>, amount |-> 5000,
                                          gst_amount |-> 900, total_amount |-> 5900 ]))
    /\ proformas = (1 :> NewProformaRow(PlainPiData))
    /\ idSeq = [client_pos |-> 1, billing_schedules |-> 1, proforma_invoices |-> 1]
    /\ issued = <<>>
    /\ lastCall = [op |-> "none", id |-> 0, result |-> "ok"]
    /\ reqs = <<>>

NextSettlement ==
    \/ \E data \in SettlementInvoiceInputs :
          invoiceSeq < MaxSettledInvoices /\ InsertInvoice(data)
    \/ \E i \in DOMAIN invoices, invoice_data \in InvoiceUpdateInputs :
          UpdateInvoice(i, invoice_data)
    \/ \E s \in DOMAIN schedules :
          invoiceSeq < MaxSettledInvoices /\ CreateInvoiceFromSchedule(s)
    \/ \E q \in DOMAIN proformas :
          invoiceSeq < MaxSettledInvoices /\ GenerateInvoiceFromPi(q)
    \/ \E data \in SettlementPaymentInputs, inv \in {0} \cup DOMAIN invoices,
          fault \in 0..MaxFaultStep :
          CreatePaymentWithFault([data EXCEPT !.invoice_id = inv], fault)
    \/ \E p \in DOMAIN payments, payment_data \in PaymentUpdateInputs(DOMAIN invoices) :
          /\ \A i \in DOMAIN invoices : Abs(invoices[i].amount_paid) <= MaxAmountPaid
          /\ UpdatePayment(p, payment_data)
    \/ \E p \in DOMAIN payments, fault \in 0..MaxFaultStep : DeletePayment(p, fault)

SpecSettlement == InitSettlement /\ [][NextSettlement]_vars

\* ------------------------------------------------------------------ C11

\* C11: for every invoice, in every state reachable through create_invoice,
\* update_invoice, create_invoice_from_schedule, generate_invoice_from_pi,
\* create_payment, update_payment and delete_payment,
\* amount_due = amount_after_tds - amount_paid.
C11_AmountDueIsAfterTdsLessPaid ==
    \A i \in DOMAIN invoices :
        invoices[i].amount_due = invoices[i].amount_after_tds - invoices[i].amount_paid

\* ------------------------------------------------- billing schedule upkeep

\* ids the billing_schedules autoincrement hands out in the schedule behaviours
MaxScheduleIds == 4

\* calendar dates <<year, month, day>>
DateLess(a, b) ==
    \/ a[1] < b[1]
    \/ a[1] = b[1] /\ a[2] < b[2]
    \/ a[1] = b[1] /\ a[2] = b[2] /\ a[3] < b[3]

DaysInMonth(year, month) ==
    IF month = 2
    THEN IF (year % 4 = 0 /\ year % 100 # 0) \/ year % 400 = 0 THEN 29 ELSE 28
    ELSE IF month \in {4, 6, 9, 11} THEN 30 ELSE 31

\* date + relativedelta(months=n): the month is advanced and the day is cut
\* back to the last day of the month reached
AddMonths(d, n) ==
    LET total == (d[2] - 1) + n
        year  == d[1] + (total \div 12)
        month == (total % 12) + 1
        last  == DaysInMonth(year, month)
    IN  <<year, month, IF d[3] > last THEN last ELSE d[3]>>

BillingFrequencies ==
    {"ONE_TIME", "MONTHLY", "QUARTERLY", "HALF_YEARLY", "YEARLY", "MILESTONE"}

\* the relativedelta generate_billing_schedules steps by, in months
FrequencyMonths(billing_frequency) ==
    CASE billing_frequency = "MONTHLY"     -> 1
      [] billing_frequency = "QUARTERLY"   -> 3
      [] billing_frequency = "HALF_YEARLY" -> 6
      [] billing_frequency = "YEARLY"      -> 12

\* the dates a "while date < end_date: ...; date += delta" loop visits
RECURSIVE LoopDates(_, _, _)
LoopDates(current_date, end_date, months) ==
    IF DateLess(current_date, end_date)
    THEN <<current_date>> \o LoopDates(AddMonths(current_date, months), end_date, months)
    ELSE <<>>

\* rows of other tables that hold a foreign key to billing schedule s
\* (invoices.billing_schedule_id, proforma_invoices.billing_schedule_id)
NeverReferenced(s) == FALSE

ScheduleReferenced(s) ==
    \/ \E i \in DOMAIN invoices : invoices[i].billing_schedule_id = s
    \/ \E q \in DOMAIN proformas : proformas[q].billing_schedule_id = s

\* the client_po_id half of the WHERE clause of the bulk delete
AnyPo(schedule, po_id) == TRUE

SamePo(schedule, po_id) == schedule.client_po_id = po_id

\* the rows "Delete existing pending schedules" removes
PendingOf(rows, po_id) ==
    { s \in DOMAIN rows : SamePo(rows[s], po_id) /\ rows[s].status = "PENDING" }

\* the BillingSchedule rows the second loop of generate_billing_schedules adds;
\* the divisor is the count of the first loop, raised to 1 when it is 0
GeneratedSchedules(client_po, po_id, start_date, end_date) ==
    LET months  == FrequencyMonths(client_po.billing_frequency)
        counted == Len(LoopDates(start_date, end_date, months))
        total_installments     == IF counted = 0 THEN 1 ELSE counted
        amount_per_installment == ToUnits(client_po.taxable_amount) \div total_installments
        gst_per_installment    ==
            ToUnits(client_po.cgst_amount + client_po.sgst_amount + client_po.igst_amount)
                \div total_installments
        dates == LoopDates(start_date, end_date, months)
    IN  [ k \in 1..Len(dates) |->
            NewScheduleRow([ client_po_id       |-> po_id,
                             installment_number |-> k,
                             due_date           |-> dates[k],
                             amount             |-> QuantizeNumeric(amount_per_installment),
                             gst_amount         |-> QuantizeNumeric(gst_per_installment),
                             total_amount       |-> QuantizeNumeric(
                                 amount_per_installment + gst_per_installment) ]) ]

\* POST /client-pos/{id}/schedules/generate (client_pos.generate_billing_schedules).
\* A request that is rejected after the bulk delete ran ends without a commit,
\* so the delete is discarded with the session. A successful call is recorded
\* in lastCall with the start date and the end date it used.
GenerateBillingSchedules(po_id, request) ==
    /\ po_id \in DOMAIN clientPos
    /\ LET client_po == clientPos[po_id]
           pending   == PendingOf(schedules, po_id)
           end_date  == IF request.end_date # NoDate THEN request.end_date
                        ELSE client_po.valid_until
       IN  IF client_po.billing_frequency \in {"ONE_TIME", "MILESTONE"}
           THEN /\ Called("generate_billing_schedules", po_id, "HTTP_400")
                /\ UNCHANGED <<schedules, idSeq>>
           ELSE IF \E s \in pending : ScheduleReferenced(s)
           THEN /\ Called("generate_billing_schedules", po_id, "IntegrityError")
                /\ UNCHANGED <<schedules, idSeq>>
           ELSE IF end_date = NoDate
           THEN /\ Called("generate_billing_schedules", po_id, "HTTP_400")
                /\ UNCHANGED <<schedules, idSeq>>
           ELSE LET new  == GeneratedSchedules(client_po, po_id, request.start_date, end_date)
                    base == idSeq.billing_schedules
                    kept == [ s \in DOMAIN schedules \ pending |-> schedules[s] ]
                IN  /\ base + Len(new) <= MaxScheduleIds
                    /\ schedules' = kept @@ [ s \in (base + 1)..(base + Len(new)) |->
                                                new[s - base] ]
                    /\ idSeq' = [idSeq EXCEPT !.billing_schedules = base + Len(new)]
                    /\ lastCall' = [ op |-> "generate_billing_schedules", id |-> po_id,
                                     result |-> "ok",
                                     request |-> [ start_date |-> request.start_date,
                                                   end_date   |-> end_date ] ]
    /\ UNCHANGED <<configVars, invoiceVars, paymentVars, ledger, clientPos, proformas,
                   issued, reqs>>

\* DELETE /client-pos/{id}/schedules/{sid} (client_pos.delete_billing_schedule)
DeleteBillingSchedule(po_id, schedule_id) ==
    /\ po_id \in DOMAIN clientPos
    /\ IF schedule_id \notin DOMAIN schedules
          \/ schedules[schedule_id].client_po_id # po_id
       THEN /\ Called("delete_billing_schedule", schedule_id, "HTTP_404")
            /\ UNCHANGED schedules
       ELSE IF schedules[schedule_id].status # "PENDING"
       THEN /\ Called("delete_billing_schedule", schedule_id, "HTTP_400")
            /\ UNCHANGED schedules
       ELSE IF ScheduleReferenced(schedule_id)
       THEN /\ Called("delete_billing_schedule", schedule_id, "IntegrityError")
            /\ UNCHANGED schedules
       ELSE /\ schedules' = Without(schedules, schedule_id)
            /\ Called("delete_billing_schedule", schedule_id, "ok")
    /\ UNCHANGED <<configVars, invoiceVars, paymentVars, ledger, clientPos, proformas,
                   idSeq, issued, reqs>>

\* DELETE /client-pos/{id} (client_pos.delete_client_po): db.delete(client_po)
\* cascades to ClientPO.billing_schedules (cascade="all, delete-orphan") and
\* sets client_po_id of ClientPO.invoices to NULL; proforma_invoices.client_po_id
\* and the foreign keys to the cascaded schedules are left to the database,
\* which rejects the delete while a row still points at them
DeleteClientPo(po_id) ==
    /\ po_id \in DOMAIN clientPos
    /\ LET children == { s \in DOMAIN schedules : schedules[s].client_po_id = po_id }
       IN  IF clientPos[po_id].status # "DRAFT"
           THEN /\ Called("delete_client_po", po_id, "HTTP_400")
                /\ UNCHANGED <<clientPos, schedules, invoices>>
           ELSE IF \/ \E q \in DOMAIN proformas : proformas[q].client_po_id = po_id
                   \/ \E s \in children : ScheduleReferenced(s)
           THEN /\ Called("delete_client_po", po_id, "IntegrityError")
                /\ UNCHANGED <<clientPos, schedules, invoices>>
           ELSE /\ clientPos' = Without(clientPos, po_id)
                /\ schedules' = [ s \in DOMAIN schedules \ children |-> schedules[s] ]
                /\ invoices' = [ i \in DOMAIN invoices |->
                                   IF invoices[i].client_po_id = po_id
                                   THEN [invoices[i] EXCEPT !.client_po_id = 0]
                                   ELSE invoices[i] ]
                /\ Called("delete_client_po", po_id, "ok")
    /\ UNCHANGED <<configVars, invoiceSeq, paymentVars, ledger, proformas, idSeq,
                   issued, reqs>>

\* request bodies of the schedule behaviours
GenerateRequests ==
    { [start_date |-> <<2025, 12, 1>>, end_date |-> <<2026, 2, 1>>],
      [start_date |-> <<2025, 4, 1>>,  end_date |-> <<2025, 4, 1>>],
      [start_date |-> <<2025, 1, 31>>, end_date |-> <<2025, 3, 30>>],
      [start_date |-> <<2025, 4, 1>>,  end_date |-> NoDate] }

\* a database holding two DRAFT client POs, billed monthly and quarterly
InitSchedules ==
    /\ today = <<2025, 4>>
    /\ settings = AllAccountsSettings
    /\ invoices = <<>>
    /\ invoiceSeq = 0
    /\ payments = <<>>
    /\ paymentSeq = 0
    /\ ledger = <<>>
    /\ clientPos \in
         { (1 :> NewClientPoRow(po_data)) @@
           (2 :> NewClientPoRow([po_data EXCEPT !.billing_frequency = "QUARTERLY",
                                                !.valid_until = <<2025, 10, 1>>])) :
             po_data \in PoCreateInputs }
    /\ schedules = <<>>
    /\ proformas = <<>>
    /\ idSeq = [client_pos |-> 2, billing_schedules |-> 0, proforma_invoices |-> 0]
    /\ issued = <<>>
    /\ lastCall = [op |-> "none", id |-> 0, result |-> "ok"]
    /\ reqs = <<>>

NextSchedules ==
    \/ \E po \in DOMAIN clientPos : UpdateClientPoStatus(po, "ACTIVE")
    \/ \E po \in DOMAIN clientPos, request \in GenerateRequests :
          GenerateBillingSchedules(po, request)
    \/ \E po \in DOMAIN clientPos, s \in DOMAIN schedules : DeleteBillingSchedule(po, s)
    \/ \E po \in DOMAIN clientPos : DeleteClientPo(po)
    \/ \E s \in DOMAIN schedules :
          invoiceSeq < MaxInvoices /\ CreateInvoiceFromSchedule(s)
    \/ \E s \in DOMAIN schedules :
          CreateProformaInvoice([PlainPiData EXCEPT !.billing_schedule_id = s])

SpecSchedules == InitSchedules /\ [][NextSchedules]_vars

\* ------------------------------------------------------------------ C12

\* C12: a billing schedule whose status is not PENDING (PI_RAISED, INVOICED or
\* CANCELLED) is never deleted by any operation: delete_billing_schedule,
\* generate_billing_schedules and delete_client_po all leave it in place.
C12_NonPendingSchedulesStay ==
    [][ \A s \in DOMAIN schedules :
            schedules[s].status # "PENDING" => s \in DOMAIN schedules' ]_vars

\* delete_client_po was called on a DRAFT PO that holds a schedule which is no
\* longer PENDING, and the schedule is still there
C12_Witness ==
    /\ lastCall.op = "delete_client_po"
    /\ lastCall.result = "IntegrityError"
    /\ \E s \in DOMAIN schedules :
          /\ schedules[s].client_po_id = lastCall.id
          /\ schedules[s].status \in {"PI_RAISED", "INVOICED"}

\* ------------------------------------------------------------------ C13

\* C13: generate_billing_schedules deletes exactly the schedules of that PO
\* whose status is PENDING before creating new ones; schedules of that PO with
\* status PI_RAISED or INVOICED, and all schedules of other POs, are left
\* unchanged.
C13_RegenerationDeletesOnlyPending ==
    [][ (lastCall'.op = "generate_billing_schedules" /\ lastCall'.result = "ok") =>
            \A s \in DOMAIN schedules :
                IF schedules[s].client_po_id = lastCall'.id
                   /\ schedules[s].status = "PENDING"
                THEN s \notin DOMAIN schedules'
                ELSE s \in DOMAIN schedules' /\ schedules'[s] = schedules[s] ]_vars

\* a regeneration has run on a PO that still holds an INVOICED or PI_RAISED
\* schedule next to the new PENDING ones, while the other PO holds schedules too
C13_Witness ==
    /\ lastCall.op = "generate_billing_schedules"
    /\ lastCall.result = "ok"
    /\ \E s, t, u \in DOMAIN schedules :
          /\ schedules[s].client_po_id = lastCall.id
          /\ schedules[s].status \in {"PI_RAISED", "INVOICED"}
          /\ schedules[t].client_po_id = lastCall.id
          /\ schedules[t].status = "PENDING"
          /\ schedules[u].client_po_id # lastCall.id

\* ------------------------------------------------------------------ C14

\* how many of the dates start, start + step, start + 2*step, ... lie strictly
\* before end_date
StepDates(start_date, end_date, months) ==
    { k \in 0..MaxScheduleIds : DateLess(AddMonths(start_date, k * months), end_date) }

\* C14: generate_billing_schedules creates as many installments as there are
\* dates start, start+step, start+2*step, ... that are strictly before the end
\* date (step = 1, 3, 6 or 12 months), with that count clamped to at least 1.
C14_InstallmentCount ==
    [][ (lastCall'.op = "generate_billing_schedules" /\ lastCall'.result = "ok") =>
            LET request == lastCall'.request
                months  == FrequencyMonths(clientPos[lastCall'.id].billing_frequency)
                count   == Cardinality(StepDates(request.start_date, request.end_date,
                                                 months))
                created == DOMAIN schedules' \ DOMAIN schedules
            IN  Cardinality(created) = IF count = 0 THEN 1 ELSE count ]_vars

\* ------------------------------------- posting under a company's settings

\* invoices and payments of one behaviour of SpecConfigured
MaxConfiguredInvoices == 1
MaxConfiguredPayments == 1

\* the default_*_account_id columns of CompanySettings
AccountFields ==
    { "default_sales_account_id", "default_purchase_account_id",
      "default_ar_account_id", "default_ap_account_id",
      "default_cash_account_id", "default_bank_account_id",
      "default_cgst_output_account_id", "default_sgst_output_account_id",
      "default_igst_output_account_id", "default_cgst_input_account_id",
      "default_sgst_input_account_id", "default_igst_input_account_id",
      "default_tds_receivable_account_id", "default_tds_payable_account_id",
      "default_round_off_account_id" }

\* the settings row with the default accounts of `unset` left NULL
WithUnset(st, unset) ==
    [ f \in DOMAIN st |-> IF f \in unset THEN 0 ELSE st[f] ]

\* CompanySettings rows a company may run with: every account configured, one
\* account left unset, none configured; posting on create or on send
SettingsVariants ==
    { [WithUnset(AllAccountsSettings, unset) EXCEPT !.ledger_posting_on = moment] :
        unset \in {{}, AccountFields} \cup {{f} : f \in AccountFields},
        moment \in {"ON_CREATE", "ON_SENT"} }

\* ledger_posting.should_post_on_create / should_post_on_send on the active
\* settings row
should_post_on_create(st) == st.ledger_posting_on = "ON_CREATE"
should_post_on_send(st)   == st.ledger_posting_on = "ON_SENT"

\* requests of the configured behaviours
ConfiguredInvoiceInputs ==
    { [PlainInvoiceData EXCEPT !.invoice_type = t] : t \in InvoiceTypes }
    \cup { [PlainInvoiceData EXCEPT !.is_igst = TRUE],
           [PlainInvoiceData EXCEPT !.items = <<RoundDownItem>>,
                                    !.tds_applicable = TRUE, !.tds_rate = 10] }

ConfiguredPaymentInputs ==
    { [PlainPaymentData EXCEPT !.tds_amount = ToUnits(1000)],
      [PlainPaymentData EXCEPT !.tds_amount = ToUnits(1000), !.payment_mode = "CASH"],
      [PlainPaymentData EXCEPT !.payment_type = "PAYMENT", !.tds_amount = ToUnits(1000)] }

InitConfigured ==
    /\ today = <<2025, 4>>
    /\ settings \in SettingsVariants
    /\ invoices = <<>>
    /\ invoiceSeq = 0
    /\ payments = <<>>
    /\ paymentSeq = 0
    /\ ledger = <<>>
    /\ clientPos = <<>>
    /\ schedules = <<>>
    /\ proformas = <<>>
    /\ idSeq = [client_pos |-> 0, billing_schedules |-> 0, proforma_invoices |-> 0]
    /\ issued = <<>>
    /\ lastCall = [op |-> "none", id |-> 0, result |-> "ok"]
    /\ reqs = <<>>

NextConfigured ==
    \/ \E data \in ConfiguredInvoiceInputs :
          invoiceSeq < MaxConfiguredInvoices /\ InsertInvoice(data)
    \/ \E i \in DOMAIN invoices, status_update \in StatusUpdates :
          UpdateInvoiceStatus(i, status_update)
    \/ \E i \in DOMAIN invoices : PostInvoice(i)
    \/ \E data \in ConfiguredPaymentInputs, inv \in {0} \cup DOMAIN invoices,
          fault \in 0..MaxFaultStep :
          /\ paymentSeq < MaxConfiguredPayments
          /\ CreatePaymentWithFault([data EXCEPT !.invoice_id = inv], fault)

SpecConfigured == InitConfigured /\ [][NextConfigured]_vars

\* ------------------------------------------------------------------ C15

\* C15: every invoice is posted at the configured moment: a create_invoice
\* call under ledger_posting_on = ON_CREATE leaves the new invoice posted, and
\* an update_invoice_status call to SENT under ON_SENT leaves the invoice posted
C15_PostedAtConfiguredMoment ==
    [][ /\ ( /\ lastCall'.op = "create_invoice"
             /\ lastCall'.result = "ok"
             /\ should_post_on_create(settings) )
           => invoices'[lastCall'.id].is_posted
        /\ ( /\ lastCall'.op = "update_invoice_status"
             /\ lastCall'.result = "SENT"
             /\ should_post_on_send(settings) )
           => invoices'[lastCall'.id].is_posted ]_vars

\* ------------------------------------------------------------------ C16

\* ledger rows of one payment
PaymentRows(rows, p) ==
    SelectSeq(rows, LAMBDA e : e.reference_type = "PAYMENT" /\ e.reference_id = p)

\* C16: when post_payment raises during create_payment, the new payment is
\* committed with is_posted false, the linked invoice keeps the payment's
\* update of amount_paid, amount_due and status, and the ledger holds no row
\* of that payment
C16_FailedPostingKeepsPaymentOnly ==
    [][ ( /\ lastCall'.op = "create_payment"
          /\ lastCall'.result = "posting_failed" )
        => LET p   == lastCall'.id
               inv == payments'[p].invoice_id
           IN  /\ p \notin DOMAIN payments
               /\ p \in DOMAIN payments'
               /\ ~payments'[p].is_posted
               /\ PaymentRows(ledger', p) = <<>>
               /\ ledger' = ledger
               /\ inv # 0 =>
                    /\ invoices'[inv].amount_paid =
                          invoices[inv].amount_paid + payments'[p].net_amount
                    /\ invoices'[inv].amount_due =
                          invoices[inv].amount_after_tds - invoices'[inv].amount_paid
                    /\ invoices'[inv].status =
                          IF invoices'[inv].amount_due <= 0 THEN "PAID" ELSE "PARTIAL" ]_vars

\* a create_payment whose posting failed after its first leg was added to the
\* session, for a payment linked to an invoice
C16_Witness ==
    /\ lastCall.op = "create_payment"
    /\ lastCall.result = "posting_failed"
    /\ lastCall.fault >= 2
    /\ payments[lastCall.id].invoice_id # 0
    /\ invoices[payments[lastCall.id].invoice_id].amount_paid > 0

\* ------------------------------------------------------------------ C17

\* C17: when reverse_payment_posting fails inside delete_payment, the commit
\* at the end of delete_payment writes no reversal row: the ledger rows of the
\* payment are the ones it had before the call
C17_FailedReversalWritesNothing ==
    [][ ( /\ lastCall'.op = "delete_payment"
          /\ lastCall'.result = "reversal_failed" )
        => PaymentRows(ledger', lastCall'.id) = PaymentRows(ledger, lastCall'.id) ]_vars

\* ------------------------------------------------------------------ C18

\* the account ids the settings row has configured
SetAccounts(st) == { st[f] : f \in AccountFields } \ {0}

\* the settings row with every default account configured
FullyConfigured(st) ==
    [ f \in DOMAIN st |-> IF f \in AccountFields THEN AllAccountsSettings[f] ELSE st[f] ]

\* the legs of `entries` whose account the settings row has configured
ConfiguredLegs(entries, st) ==
    SelectSeq(entries, LAMBDA e : e.account_id \in SetAccounts(st))

\* C18: whatever default accounts are unset, a posting raises no error, sets
\* is_posted, and writes exactly the legs a fully configured company would
\* get, less the legs of the unset accounts (none at all when no account is
\* configured)
C18_UnsetAccountsSkipTheirLegs ==
    [][ /\ ( lastCall'.op = "post_invoice" /\ lastCall'.id \in DOMAIN invoices
             /\ ~invoices[lastCall'.id].is_posted )
           => LET i == lastCall'.id
              IN  /\ lastCall'.result = "ok"
                  /\ invoices'[i].is_posted
                  /\ ledger' = ledger \o ConfiguredLegs(
                        PostInvoiceEntries(ledger, i, invoices[i],
                                           FullyConfigured(settings)), settings)
        /\ ( lastCall'.op = "create_payment" /\ lastCall'.result = "ok" )
           => LET p == lastCall'.id
              IN  /\ payments'[p].is_posted
                  /\ ledger' = ledger \o ConfiguredLegs(
                        PostPaymentEntries(ledger, p, payments'[p],
                                           FullyConfigured(settings)), settings) ]_vars

\* a SALES invoice posted by a company without an AR account: posted, with its
\* sales leg and without a receivable leg
C18_Witness ==
    /\ lastCall.op = "post_invoice"
    /\ lastCall.result = "ok"
    /\ settings.default_ar_account_id = 0
    /\ settings.default_sales_account_id # 0
    /\ invoices[lastCall.id].invoice_type = "SALES"
    /\ invoices[lastCall.id].is_posted
    /\ \E k \in 1..Len(ledger) :
          ledger[k].account_id = settings.default_sales_account_id
    /\ \A k \in 1..Len(ledger) :
          ledger[k].account_id # AllAccountsSettings.default_ar_account_id

\* ------------------------------------------------------------------ C19

\* the rows a step appended to the ledger
NewRows == SubSeq(ledger', Len(ledger) + 1, Len(ledger'))

\* <<account_id, debit, credit>> of each leg of `entries`
LegTriples(entries) ==
    { <<entries[k].account_id, entries[k].debit, entries[k].credit>> :
        k \in 1..Len(entries) }

\* one debit leg / one credit leg of `amount`, omitted when the amount is zero
DebitOf(account_id, amount) ==
    IF amount = 0 THEN {} ELSE {<<account_id, amount, 0>>}
CreditOf(account_id, amount) ==
    IF amount = 0 THEN {} ELSE {<<account_id, 0, amount>>}

\* the legs of a SALES invoice for a fully configured company
SalesLegs(invoice, st) ==
    DebitOf(st.default_ar_account_id, invoice.amount_after_tds)
    \cup DebitOf(st.default_tds_receivable_account_id, invoice.tds_amount)
    \cup CreditOf(st.default_sales_account_id, invoice.taxable_amount)
    \cup (IF invoice.is_igst
          THEN CreditOf(st.default_igst_output_account_id, invoice.igst_amount)
          ELSE CreditOf(st.default_cgst_output_account_id, invoice.cgst_amount)
               \cup CreditOf(st.default_sgst_output_account_id, invoice.sgst_amount))
    \cup (IF invoice.round_off > 0
          THEN DebitOf(st.default_round_off_account_id, invoice.round_off)
          ELSE CreditOf(st.default_round_off_account_id, -invoice.round_off))

\* C19: with all default accounts configured, posting a SALES invoice writes
\* exactly: debit AR amount_after_tds, debit TDS-receivable tds_amount, credit
\* sales taxable_amount, credit IGST-output igst_amount when is_igst and
\* credits CGST-output cgst_amount and SGST-output sgst_amount otherwise, and a
\* round-off leg that is a debit of round_off when round_off > 0 and a credit
\* of |round_off| when round_off < 0; legs of amount zero are omitted
C19_SalesInvoiceLegs ==
    [][ ( /\ lastCall'.op = "post_invoice"
          /\ lastCall'.result = "ok"
          /\ invoices[lastCall'.id].invoice_type = "SALES" )
        => LET invoice == invoices[lastCall'.id]
           IN  /\ SubSeq(ledger', 1, Len(ledger)) = ledger
               /\ LegTriples(NewRows) = SalesLegs(invoice, settings)
               /\ Len(NewRows) = Cardinality(SalesLegs(invoice, settings))
               /\ \A k \in 1..Len(NewRows) :
                     /\ NewRows[k].reference_type = "INVOICE"
                     /\ NewRows[k].reference_id = lastCall'.id ]_vars

\* a posted SALES invoice with TDS and a negative round_off, whose voucher has
\* a TDS-receivable debit and a round-off credit
C19_Witness ==
    /\ lastCall.op = "post_invoice"
    /\ lastCall.result = "ok"
    /\ invoices[lastCall.id].invoice_type = "SALES"
    /\ invoices[lastCall.id].round_off < 0
    /\ \E k \in 1..Len(ledger) :
          /\ ledger[k].reference_id = lastCall.id
          /\ ledger[k].account_id = settings.default_round_off_account_id
          /\ ledger[k].credit = -invoices[lastCall.id].round_off
          /\ ledger[k].debit = 0

\* ------------------------------------------------------------------ C20

\* the invoice type whose legs a note mirrors
MirroredType(invoice_type) ==
    IF invoice_type = "CREDIT_NOTE" THEN "SALES" ELSE "PURCHASE"

\* C20: post_invoice on a CREDIT_NOTE writes exactly the legs a SALES invoice
\* with the same amounts would get, each with debit and credit swapped, and on
\* a DEBIT_NOTE exactly the legs of a PURCHASE invoice with debit and credit
\* swapped; the note's is_posted becomes true
C20_NotesMirrorInvoices ==
    [][ ( /\ lastCall'.op = "post_invoice"
          /\ lastCall'.result = "ok"
          /\ invoices[lastCall'.id].invoice_type \in {"CREDIT_NOTE", "DEBIT_NOTE"} )
        => LET i      == lastCall'.id
               mirror == PostInvoiceEntries(ledger, i,
                            [invoices[i] EXCEPT
                                !.invoice_type = MirroredType(invoices[i].invoice_type)],
                            settings)
           IN  /\ invoices'[i].is_posted
               /\ SubSeq(ledger', 1, Len(ledger)) = ledger
               /\ Len(NewRows) = Len(mirror)
               /\ \A k \in 1..Len(mirror) :
                     /\ NewRows[k].account_id = mirror[k].account_id
                     /\ NewRows[k].debit = mirror[k].credit
                     /\ NewRows[k].credit = mirror[k].debit
                     /\ NewRows[k].voucher_number = mirror[k].voucher_number
                     /\ NewRows[k].reference_id = i ]_vars

\* a posted CREDIT_NOTE whose voucher credits the AR account
C20_Witness ==
    /\ lastCall.op = "post_invoice"
    /\ lastCall.result = "ok"
    /\ invoices[lastCall.id].invoice_type = "CREDIT_NOTE"
    /\ invoices[lastCall.id].is_posted
    /\ \E k \in 1..Len(ledger) :
          /\ ledger[k].reference_type = "INVOICE"
          /\ ledger[k].reference_id = lastCall.id
          /\ ledger[k].account_id = settings.default_ar_account_id
          /\ ledger[k].credit = invoices[lastCall.id].amount_after_tds
          /\ ledger[k].debit = 0

\* ------------------------------------------------------- the tax calculators

\* line items the calculators are applied to: quantity, rate in paise, and
\* whole percentages
TaxItems ==
    [ quantity : {1, 2}, rate : {10000, 10050, 3333}, discount_percent : {0, 10},
      gst_rate : {0, 5, 12, 18, 28}, cess_rate : {0, 1} ]

\* client PO items: amount in paise and GST rate
PoTaxItems == [ amount : {10000, 10050, 3333}, gst_rate : {0, 5, 12, 18, 28} ]

\* GST amounts of billing schedules, in paise
ScheduleGstAmounts == {0, 900, 901, 1800, 6000}

\* one call of a calculator: the arguments and the returned dict, keyed by
\* its field names
Calculated(op, request, result) ==
    /\ lastCall' = [op |-> op, id |-> 0, request |-> request,
                    result |-> [f \in DOMAIN result |-> result[f]]]
    /\ UNCHANGED <<configVars, invoiceVars, paymentVars, ledger, poVars, issued, reqs>>

CalculateInvoiceItemAmounts(item_data, is_igst) ==
    Calculated("calculate_invoice_item_amounts",
               [item_data |-> item_data, is_igst |-> is_igst],
               calculate_invoice_item_amounts(item_data, is_igst))

CalculatePiItemAmounts(item_data, is_igst) ==
    Calculated("calculate_pi_item_amounts",
               [item_data |-> item_data, is_igst |-> is_igst],
               calculate_pi_item_amounts(item_data, is_igst))

CalculateGstAmounts(item_data, is_igst) ==
    Calculated("calculate_gst_amounts",
               [item_data |-> item_data, is_igst |-> is_igst],
               calculate_gst_amounts(item_data, is_igst))

SplitScheduleGst(gst_amount, is_igst) ==
    Calculated("create_invoice_from_schedule",
               [gst_amount |-> gst_amount, is_igst |-> is_igst],
               ScheduleGstSplit(ToUnits(gst_amount), is_igst))

NextTax ==
    \/ \E item_data \in TaxItems, is_igst \in BOOLEAN :
          CalculateInvoiceItemAmounts(item_data, is_igst)
    \/ \E item_data \in TaxItems, is_igst \in BOOLEAN :
          CalculatePiItemAmounts(item_data, is_igst)
    \/ \E item_data \in PoTaxItems, is_igst \in BOOLEAN :
          CalculateGstAmounts(item_data, is_igst)
    \/ \E gst_amount \in ScheduleGstAmounts, is_igst \in BOOLEAN :
          SplitScheduleGst(gst_amount, is_igst)

SpecTax == Init /\ [][NextTax]_vars

\* ------------------------------------------------------------------ C21

\* the GST of the line item of a calculator call, from the call's arguments
GstAmountOf(call) ==
    CASE call.op \in {"calculate_invoice_item_amounts", "calculate_pi_item_amounts"} ->
            LET item    == call.request.item_data
                amount  == item.quantity * ToUnits(item.rate)
                taxable == amount - (amount * item.discount_percent) \div 100
            IN  (taxable * item.gst_rate) \div 100
      [] call.op = "calculate_gst_amounts" ->
            (ToUnits(call.request.item_data.amount) * call.request.item_data.gst_rate)
                \div 100
      [] call.op = "create_invoice_from_schedule" ->
            ToUnits(call.request.gst_amount)

TaxCalculators ==
    { "calculate_invoice_item_amounts", "calculate_pi_item_amounts",
      "calculate_gst_amounts", "create_invoice_from_schedule" }

\* C21: every line item a tax calculator computes has, when is_igst is false,
\* cgst_amount = sgst_amount = gst_amount / 2 and igst_amount = 0, and when
\* is_igst is true, cgst_amount = sgst_amount = 0 and igst_amount = gst_amount
C21_GstSplit ==
    lastCall.op \in TaxCalculators =>
        LET r   == lastCall.result
            gst == GstAmountOf(lastCall)
        IN  IF lastCall.request.is_igst
            THEN r.cgst_amount = 0 /\ r.sgst_amount = 0 /\ r.igst_amount = gst
            ELSE /\ 2 * r.cgst_amount = gst
                 /\ r.sgst_amount = r.cgst_amount
                 /\ r.igst_amount = 0

\* an intra-state proforma item with a discount and a non-zero GST
C21_Witness ==
    /\ lastCall.op = "calculate_pi_item_amounts"
    /\ ~lastCall.request.is_igst
    /\ lastCall.request.item_data.discount_percent > 0
    /\ lastCall.result.cgst_amount > 0
    /\ lastCall.result.sgst_amount = lastCall.result.cgst_amount

\* ------------------------------------------- invoices by their four paths

\* invoices and proforma invoices of one behaviour of SpecTotals
MaxTotalsInvoices == 2
MaxTotalsProformas == 1

\* request bodies of the totals behaviours: a round total, a total rounded
\* down, TDS and TCS
TotalsInvoiceInputs ==
    { PlainInvoiceData,
      [PlainInvoiceData EXCEPT !.items = <<RoundDownItem>>],
      [PlainInvoiceData EXCEPT !.tds_applicable = TRUE, !.tds_rate = 10,
                               !.tcs_applicable = TRUE, !.tcs_rate = 10] }

TotalsUpdateInputs ==
    { [update_data |-> [discount_percent |-> 10],
       has_items |-> TRUE, items |-> <<PlainItem, CessItem>>],
      [update_data |-> [discount_percent |-> 10],
       has_items |-> FALSE, items |-> <<>>] }

TotalsPiInputs ==
    { PlainPiData,
      [PlainPiData EXCEPT !.items = <<RoundDownItem>>],
      [PlainPiData EXCEPT !.tcs_applicable = TRUE, !.tcs_rate = 10] }

\* amounts a billing schedule is created with: Rs 50 + 9, Rs 50.50 + 9.09
TotalsScheduleAmounts ==
    { [amount |-> 5000, gst_amount |-> 900, total_amount |-> 5900],
      [amount |-> 5050, gst_amount |-> 909, total_amount |-> 5959] }

\* a database holding one client PO with one PENDING billing schedule, as
\* create_client_po and create_billing_schedule leave them
InitTotals ==
    /\ today = <<2025, 4>>
    /\ settings = AllAccountsSettings
    /\ invoices = <<>>
    /\ invoiceSeq = 0
    /\ payments = <<>>
    /\ paymentSeq = 0
    /\ ledger = <<>>
    /\ clientPos \in { (1 :> NewClientPoRow(po_data)) : po_data \in PoCreateInputs }
    /\ schedules \in { (1 :> NewScheduleRow(
                           [ client_po_id |-> 1, installment_number |-> 1,
                             due_date |-> <<2025, 4, 1>>, amount |-> a.amount,
                             gst_amount |-> a.gst_amount,
                             total_amount |-> a.total_amount ])) :
                        a \in TotalsScheduleAmounts }
    /\ proformas = <<>>
    /\ idSeq = [client_pos |-> 1, billing_schedules |-> 1, proforma_invoices |-> 0]
    /\ issued = <<>>
    /\ lastCall = [op |-> "none", id |-> 0, result |-> "ok"]
    /\ reqs = <<>>

NextTotals ==
    \/ \E data \in TotalsInvoiceInputs :
          invoiceSeq < MaxTotalsInvoices /\ InsertInvoice(data)
    \/ \E i \in DOMAIN invoices, invoice_data \in TotalsUpdateInputs :
          UpdateInvoice(i, invoice_data)
    \/ \E s \in DOMAIN schedules :
          invoiceSeq < MaxTotalsInvoices /\ CreateInvoiceFromSchedule(s)
    \/ \E pi_data \in TotalsPiInputs :
          /\ idSeq.proforma_invoices < MaxTotalsProformas
          /\ CreateProformaInvoice(pi_data)
    \/ \E q \in DOMAIN proformas :
          invoiceSeq < MaxTotalsInvoices /\ GenerateInvoiceFromPi(q)

SpecTotals == InitTotals /\ [][NextTotals]_vars

\* ------------------------------------------------------------------ C22

\* total_amount = taxable_amount + cgst_amount + sgst_amount + igst_amount +
\* cess_amount + round_off on one row
ComponentsAddUp(invoice) ==
    invoice.total_amount = invoice.taxable_amount + invoice.cgst_amount
                           + invoice.sgst_amount + invoice.igst_amount
                           + invoice.cess_amount + invoice.round_off

\* total_amount is a whole number of rupees and round_off at most half a rupee
TotalIsRounded(invoice) ==
    /\ invoice.total_amount % 100 = 0
    /\ Abs(invoice.round_off) <= 50

\* C22: every invoice, whichever path created it, has total_amount =
\* taxable_amount + cgst_amount + sgst_amount + igst_amount + cess_amount +
\* round_off, with total_amount the rounded total and round_off the difference
C22_TotalsAddUp ==
    \A i \in DOMAIN invoices :
        ComponentsAddUp(invoices[i]) /\ TotalIsRounded(invoices[i])

\* ------------------------------------------------------------------ C23

RECURSIVE SumNetAmounts(_, _)
\* net_amount summed over the payments of ids
SumNetAmounts(rows, ids) ==
    IF ids = {} THEN 0
    ELSE LET p == CHOOSE x \in ids : TRUE
         IN  rows[p].net_amount + SumNetAmounts(rows, ids \ {p})

\* the existing payments whose invoice_id is invoice i
PaymentsOf(i) == { p \in DOMAIN payments : payments[p].invoice_id = i }

\* C23: after any sequence of create_payment, update_payment and
\* delete_payment calls, every invoice's amount_paid is the sum of net_amount
\* over the existing payments linked to it
C23_AmountPaidIsSumOfPayments ==
    \A i \in DOMAIN invoices :
        invoices[i].amount_paid = SumNetAmounts(payments, PaymentsOf(i))

\* ------------------------------------------------------------------ C24

\* One client PO with two PENDING schedules, then the five operations that
\* move a schedule between PENDING, PI_RAISED and INVOICED.
MaxLinkedInvoices == 2

InitScheduleLinks ==
    /\ today = <<2025, 4>>
    /\ settings = AllAccountsSettings
    /\ invoices = <<>>
    /\ invoiceSeq = 0
    /\ payments = <<>>
    /\ paymentSeq = 0
    /\ ledger = <<>>
    /\ clientPos \in { (1 :> NewClientPoRow(po_data)) : po_data \in PoCreateInputs }
    /\ schedules = [ s \in 1..2 |-> NewScheduleRow(
                        [ client_po_id |-> 1, installment_number |-> s,
                          due_date |-> <<2025, 4, 1>>, amount |-> 5000,
                          gst_amount |-> 900, total_amount |-> 5900 ]) ]
    /\ proformas = <<>>
    /\ idSeq = [client_pos |-> 1, billing_schedules |-> 2, proforma_invoices |-> 0]
    /\ issued = <<>>
    /\ lastCall = [op |-> "none", id |-> 0, result |-> "ok"]
    /\ reqs = <<>>

NextScheduleLinks ==
    \/ \E s \in DOMAIN schedules :
          /\ invoiceSeq < MaxLinkedInvoices
          /\ CreateInvoiceFromSchedule(s)
    \/ \E s \in DOMAIN schedules : CreatePiFromSchedule(s)
    \/ \E s \in DOMAIN schedules :
          CreateProformaInvoice([PlainPiData EXCEPT !.client_po_id = 1,
                                                    !.billing_schedule_id = s])
    \/ \E q \in DOMAIN proformas : DeleteProformaInvoice(q)
    \/ \E q \in DOMAIN proformas :
          /\ invoiceSeq < MaxLinkedInvoices
          /\ GenerateInvoiceFromPi(q)

SpecScheduleLinks == InitScheduleLinks /\ [][NextScheduleLinks]_vars

\* the invoices that reference billing schedule s
InvoicesOfSchedule(s) == { i \in DOMAIN invoices : invoices[i].billing_schedule_id = s }

\* C24: at most one invoice references any given billing schedule, and a
\* schedule that has reached INVOICED never returns to PI_RAISED or PENDING
C24_ScheduleInvoicedOnce ==
    [][ /\ \A s \in DOMAIN schedules' : Cardinality(InvoicesOfSchedule(s)') <= 1
        /\ \A s \in DOMAIN schedules :
              schedules[s].status = "INVOICED" => schedules'[s].status = "INVOICED"
      ]_vars

\* ------------------------------------------------------------------ C25

\* Concurrent POST /client-pos/{id}/schedules/{sid}/create-invoice requests,
\* each in its own session (READ COMMITTED): the status check, the invoice
\* number and the commit are separate statements of the request.
InitConcurrentSchedules == InitScheduleLinks

\* the endpoint and the service read the schedule and check its status
BeginCreateInvoiceFromSchedule(s) ==
    /\ Len(reqs) < MaxRequests
    /\ s \in DOMAIN schedules
    /\ reqs' = Append(reqs, [ kind     |-> "create_invoice_from_schedule",
                              pc       |-> IF schedules[s].status = "PENDING"
                                           THEN "checked" ELSE "rejected",
                              schedule |-> s ])
    /\ Called("create_invoice_from_schedule", Len(reqs) + 1,
              IF schedules[s].status = "PENDING" THEN "checked" ELSE "HTTP_400")
    /\ UNCHANGED <<configVars, invoiceVars, paymentVars, ledger, poVars, issued>>

\* the service runs generate_invoice_number on the rows committed so far
NumberCreateInvoiceFromSchedule(r) ==
    /\ r \in DOMAIN reqs
    /\ reqs[r].kind = "create_invoice_from_schedule"
    /\ reqs[r].pc = "checked"
    /\ reqs' = [reqs EXCEPT ![r] =
                  [ kind     |-> reqs[r].kind,
                    pc       |-> "numbered",
                    schedule |-> reqs[r].schedule,
                    number   |-> generate_invoice_number(invoices, "SALES", today) ]]
    /\ Called("generate_invoice_number", r, "ok")
    /\ UNCHANGED <<configVars, invoiceVars, paymentVars, ledger, poVars, issued>>

\* the flush and the commit: the INSERT fails on a committed invoice_number,
\* otherwise the invoice is written, the schedule object of this session is
\* set to INVOICED and the PO fulfillment is recomputed
CommitCreateInvoiceFromSchedule(r) ==
    /\ r \in DOMAIN reqs
    /\ reqs[r].kind = "create_invoice_from_schedule"
    /\ reqs[r].pc = "numbered"
    /\ IF \E i \in DOMAIN invoices : invoices[i].invoice_number = reqs[r].number
       THEN /\ reqs' = [reqs EXCEPT ![r].pc = "failed"]
            /\ Called("create_invoice_from_schedule", r, "HTTP_500")
            /\ UNCHANGED <<invoices, invoiceSeq, schedules, clientPos, issued>>
       ELSE LET id   == invoiceSeq + 1
                s    == reqs[r].schedule
                po   == schedules[s].client_po_id
                rows == invoices @@ (id :> ScheduleInvoiceRow(reqs[r].number, today,
                                                 s, schedules[s], clientPos[po]))
            IN  /\ invoices' = rows
                /\ invoiceSeq' = id
                /\ schedules' = [schedules EXCEPT ![s].status = "INVOICED",
                                                  ![s].invoice_id = id]
                /\ clientPos' = [clientPos EXCEPT
                                    ![po] = update_po_fulfillment(rows, @, po)]
                /\ issued' = Append(issued, reqs[r].number)
                /\ reqs' = [reqs EXCEPT ![r].pc = "done"]
                /\ Called("create_invoice_from_schedule", r, "ok")
    /\ UNCHANGED <<configVars, paymentVars, ledger, proformas, idSeq>>

NextConcurrentSchedules ==
    \/ \E s \in DOMAIN schedules : BeginCreateInvoiceFromSchedule(s)
    \/ \E r \in DOMAIN reqs : NumberCreateInvoiceFromSchedule(r)
    \/ \E r \in DOMAIN reqs : CommitCreateInvoiceFromSchedule(r)

SpecConcurrentSchedules == InitConcurrentSchedules /\ [][NextConcurrentSchedules]_vars

\* the requests that were answered with an invoice for schedule s
AnsweredWithInvoice(s) ==
    { r \in DOMAIN reqs : reqs[r].schedule = s /\ reqs[r].pc = "done" }

\* C25: concurrent create-invoice requests for the same PENDING billing
\* schedule result in at most one invoice
C25_ConcurrentRequestsOneInvoice ==
    \A s \in DOMAIN schedules :
        /\ Cardinality(AnsweredWithInvoice(s)) <= 1
        /\ Cardinality(InvoicesOfSchedule(s)) <= 1

\* ------------------------------------------------------------------ C26

\* C26: a payment with is_posted true has ledger entries of its current
\* amounts: the net movement of its entries on the cash/bank account equals
\* its net_amount
C26_PostedPaymentMatchesLedger ==
    \A p \in DOMAIN payments :
        payments[p].is_posted
            => Abs(NetMovement("PAYMENT", p, CashBankAccount(payments[p], settings)))
                   = payments[p].net_amount

\* ------------------------------------------------------------------ C27

\* Invoices that are created, posted, moved between statuses, edited and
\* deleted.
MaxPostedInvoices == 2

NextPostedInvoices ==
    \/ invoiceSeq < MaxPostedInvoices /\ InsertInvoice(PlainInvoiceData)
    \/ \E i \in DOMAIN invoices : PostInvoice(i)
    \/ \E i \in DOMAIN invoices, status_update \in StatusUpdates :
          UpdateInvoiceStatus(i, status_update)
    \/ \E i \in DOMAIN invoices, invoice_data \in InvoiceUpdateInputs :
          UpdateInvoice(i, invoice_data)
    \/ \E i \in DOMAIN invoices : DeleteInvoice(i)

SpecPostedInvoices == Init /\ [][NextPostedInvoices]_vars

\* C27: delete_invoice and update_invoice succeed only on invoices that are
\* not posted
C27_PostedInvoicesAreFrozen ==
    [][ ( /\ lastCall'.op \in {"delete_invoice", "update_invoice"}
          /\ lastCall'.result = "ok" )
        => ~invoices[lastCall'.id].is_posted ]_vars

\* ------------------------------------------------------------------ C28

\* Client POs that are created, edited, moved between statuses and invoiced
\* from their schedules.
MaxAmountPos == 1

MaxAmountSchedules == 2

\* request bodies of PATCH /client-pos/{id}
PoUpdateInputs ==
    { [ items |-> << [amount |-> 20000, gst_rate |-> 18] >> ],
      [ items |-> << [amount |-> 10000, gst_rate |-> 18] >>, is_igst |-> TRUE ],
      [ billing_frequency |-> "QUARTERLY" ] }

NextPoAmounts ==
    \/ \E po_data \in PoCreateInputs :
          idSeq.client_pos < MaxAmountPos /\ CreateClientPo(po_data)
    \/ \E po \in DOMAIN clientPos, po_data \in PoUpdateInputs :
          UpdateClientPo(po, po_data)
    \/ \E po \in DOMAIN clientPos, st \in ClientPoStatusUpdates :
          UpdateClientPoStatus(po, st)
    \/ \E po \in DOMAIN clientPos, amounts \in ScheduleAmounts :
          /\ idSeq.billing_schedules < MaxAmountSchedules
          /\ CreateBillingSchedule(po, amounts)
    \/ \E s \in DOMAIN schedules : CreateInvoiceFromSchedule(s)

SpecPoAmounts == Init /\ [][NextPoAmounts]_vars

\* C28: for every ClientPO, remaining_amount = total_amount - invoiced_amount
C28_RemainingIsTotalLessInvoiced ==
    \A po \in DOMAIN clientPos :
        clientPos[po].remaining_amount
            = clientPos[po].total_amount - clientPos[po].invoiced_amount

\* ------------------------------------------------------------------ C29

\* ClientPO.billing_schedules: the schedules of rows whose client_po_id is po_id
SchedulesOf(rows, po_id) == { s \in DOMAIN rows : rows[s].client_po_id = po_id }

\* sum of total_amount over a set of schedule ids
RECURSIVE SumScheduleTotals(_, _)
SumScheduleTotals(rows, ids) ==
    IF ids = {} THEN 0
    ELSE LET s == CHOOSE x \in ids : TRUE
         IN  rows[s].total_amount + SumScheduleTotals(rows, ids \ {s})

\* the number of installments a successful generate_billing_schedules call
\* recorded in call created for client_po
InstallmentsOf(client_po, call) ==
    Len(LoopDates(call.request.start_date, call.request.end_date,
                  FrequencyMonths(client_po.billing_frequency)))

\* C29: after generate_billing_schedules on a PO whose taxable amount and GST
\* divide exactly by the installment count, the total_amount of all schedules
\* of the PO, the retained PI_RAISED and INVOICED ones included, adds up to
\* the PO's taxable_amount + CGST + SGST + IGST, and no two schedules of the
\* PO share an installment_number
C29_SchedulesCoverThePo ==
    [][ ( /\ lastCall'.op = "generate_billing_schedules"
          /\ lastCall'.result = "ok"
          /\ LET client_po == clientPos[lastCall'.id]
                 n         == InstallmentsOf(client_po, lastCall')
                 gst       == client_po.cgst_amount + client_po.sgst_amount
                              + client_po.igst_amount
             IN  /\ n >= 1
                 /\ client_po.taxable_amount % n = 0
                 /\ gst % n = 0 )
        => LET po_id     == lastCall'.id
               client_po == clientPos[po_id]
               ids       == SchedulesOf(schedules', po_id)
           IN  /\ SumScheduleTotals(schedules', ids)
                     = client_po.taxable_amount + client_po.cgst_amount
                       + client_po.sgst_amount + client_po.igst_amount
               /\ \A s \in ids, t \in ids :
                     s # t => schedules'[s].installment_number
                                 # schedules'[t].installment_number ]_vars

\* ------------------------------------------------------------------ C30

\* the invoices table after n create_invoice calls with the plain request
RECURSIVE CreatedInvoices(_)
CreatedInvoices(n) ==
    IF n = 0 THEN <<>>
    ELSE LET rows == CreatedInvoices(n - 1)
         IN  rows @@ (n :> NewInvoiceRow(
                         generate_invoice_number(rows, "SALES", <<2025, 4>>),
                         PlainInvoiceData))

\* the statuses of InvoiceStatus, in the order of the enum
StatusOrder == <<"DRAFT", "SENT", "PARTIAL", "PAID", "OVERDUE", "CANCELLED">>

\* one invoice of 118.00 per status, as create_invoice and update_invoice_status
\* leave them
RoundTripInvoices ==
    [ i \in 1..Len(StatusOrder) |->
        [CreatedInvoices(Len(StatusOrder))[i] EXCEPT !.status = StatusOrder[i]] ]

\* 100.00; 118.00; 100.00 less TDS of 10.00; 100.00 plus TCS of 1.00 in cash;
\* 50.00
RoundTripPaymentInputs ==
    { PlainPaymentData,
      [PlainPaymentData EXCEPT !.gross_amount = ToUnits(11800)],
      [PlainPaymentData EXCEPT !.tds_amount = ToUnits(1000)],
      [PlainPaymentData EXCEPT !.tcs_amount = ToUnits(100), !.payment_mode = "CASH"],
      [PlainPaymentData EXCEPT !.gross_amount = ToUnits(5000)] }

InitRoundTrip ==
    /\ today = <<2025, 4>>
    /\ settings = AllAccountsSettings
    /\ invoices = RoundTripInvoices
    /\ invoiceSeq = Len(StatusOrder)
    /\ payments = <<>>
    /\ paymentSeq = 0
    /\ ledger = <<>>
    /\ clientPos = <<>>
    /\ schedules = <<>>
    /\ proformas = <<>>
    /\ idSeq = [client_pos |-> 0, billing_schedules |-> 0, proforma_invoices |-> 0]
    /\ issued = [ i \in 1..Len(StatusOrder) |-> RoundTripInvoices[i].invoice_number ]
    /\ lastCall = [op |-> "none", id |-> 0, result |-> "ok"]
    /\ reqs = <<>>

NextRoundTrip ==
    \/ \E data \in RoundTripPaymentInputs, inv \in DOMAIN invoices,
          fault \in 0..MaxFaultStep :
          CreatePaymentWithFault([data EXCEPT !.invoice_id = inv], fault)
    \/ \E p \in DOMAIN payments, fault \in 0..MaxFaultStep : DeletePayment(p, fault)

SpecRoundTrip == InitRoundTrip /\ [][NextRoundTrip]_vars

\* C30: create_payment linked to an invoice followed by delete_payment of that
\* payment restores the invoice's amount_paid, amount_due and status, whatever
\* the status of the invoice was
C30_DeleteUndoesCreate ==
    [][ (lastCall'.op = "delete_payment" /\ paymentSeq' = 1)
        => \A i \in DOMAIN invoices' :
              /\ invoices'[i].amount_paid = RoundTripInvoices[i].amount_paid
              /\ invoices'[i].amount_due  = RoundTripInvoices[i].amount_due
              /\ invoices'[i].status      = RoundTripInvoices[i].status ]_vars

====
